---- MODULE Spec2Model ----
(***************************************************************************)
(* convx: the scanning, sizing, session-indexing and caching pipeline      *)
(* (src/src/data/*.ts and the OpenCode scanner in src/unnamed/part_000).   *)
(*                                                                         *)
(* JavaScript values are modelled as tagged records, field k being the     *)
(* tag, so that `undefined`, NaN, Invalid Date and non-string JSON values  *)
(* behave as they do at run time.                                          *)
(***************************************************************************)
EXTENDS Integers, Sequences, FiniteSets, TLC

(***************************************************************************)
(* Bounds of the model.                                                    *)
(***************************************************************************)
\* longest string (in UTF-16 units) a content field holds
MaxStrLen == 5
\* most parts in a message.content array / parts list
MaxParts == 2

(***************************************************************************)
(* JavaScript numbers: an integer, NaN, or `undefined` (the value of       *)
(* `.length` on a value that has none).                                    *)
(***************************************************************************)
JsInt(n) == [k |-> "int", v |-> n]
JsNaN == [k |-> "nan"]
JsUndef == [k |-> "undef"]

\* a + b on numbers: anything but two numbers gives NaN
JsAdd(a, b) ==
  IF a.k = "int" /\ b.k = "int" THEN JsInt(a.v + b.v) ELSE JsNaN

\* Math.max(a, b): NaN as soon as one argument is not a number
JsMax(a, b) ==
  IF a.k = "int" /\ b.k = "int"
    THEN JsInt(IF a.v >= b.v THEN a.v ELSE b.v)
    ELSE JsNaN

\* Math.ceil(n / 4) for n >= 0
CeilDiv4(n) == (n + 3) \div 4

(***************************************************************************)
(* JSON field values as the measurer sees them.                            *)
(*   absent : the field is missing (undefined)                             *)
(*   str    : a string of len UTF-16 units and bytes UTF-8 bytes           *)
(*   num    : a non-zero number of digits decimal digits (no .length)      *)
(*   obj    : an object whose JSON text has json characters, pretty     *)
(*            when indented by 2 (no .length)                              *)
(***************************************************************************)
Absent == [k |-> "absent"]
Str(n, b) == [k |-> "str", len |-> n, bytes |-> b]
Num(d) == [k |-> "num", digits |-> d]
Obj(j, p) == [k |-> "obj", json |-> j, pretty |-> p]

\* JavaScript truthiness of a field value
Truthy(x) ==
  CASE x.k = "absent" -> FALSE
    [] x.k = "str" -> x.len > 0
    [] OTHER -> TRUE

\* String(x), as TextEncoder.encode converts its argument
ToStr(x) ==
  CASE x.k = "str" -> x
    [] x.k = "num" -> Str(x.digits, x.digits)
    [] x.k = "obj" -> Str(15, 15)        \* "[object Object]"
    [] OTHER -> Str(9, 9)                \* "undefined"

\* JSON.stringify(x) of a truthy value: a string is quoted
JsonStringify(x) ==
  CASE x.k = "str" -> Str(x.len + 2, x.bytes + 2)
    [] x.k = "num" -> Str(x.digits, x.digits)
    [] x.k = "obj" -> Str(x.json, x.json)
    [] OTHER -> Absent

SizeModes == {"chars", "bytes", "tokens"}

\* text.length
Length(x) == IF x.k = "str" THEN JsInt(x.len) ELSE JsUndef

\* size.ts measureText
measureText(text, mode) ==
  IF ~Truthy(text) THEN JsInt(0)
  ELSE CASE mode = "chars" -> Length(text)
         [] mode = "bytes" -> JsInt(ToStr(text).bytes)
         [] mode = "tokens" ->
              IF text.k = "str" THEN JsInt(CeilDiv4(text.len)) ELSE JsNaN
         [] OTHER -> Length(text)

(***************************************************************************)
(* Source-A records.  message.content is absent, a string, or an array of  *)
(* parts; a part is null (a JSON null in the array) or                     *)
(* [type, val] with val the field the measurer reads for that type:        *)
(* text.text, thinking.thinking, tool_use.input, tool_result.content.      *)
(***************************************************************************)
Arr(parts) == [k |-> "arr", parts |-> parts]
NullPart == [type |-> "null"]
Thrown == [k |-> "throw"]

\* one iteration of the `user` loop, size.ts 36-43
ClaudeUserPart(part, mode) ==
  IF part.type = "text" /\ Truthy(part.val)
    THEN measureText(part.val, mode)
  ELSE IF part.type = "tool_result" /\ Truthy(part.val)
    THEN measureText(JsonStringify(part.val), mode)
  ELSE JsInt(0)

\* one iteration of the `assistant` loop, size.ts 50-60
ClaudeAssistantPart(part, mode) ==
  IF part.type \in {"text", "thinking"} /\ Truthy(part.val)
    THEN measureText(part.val, mode)
  ELSE IF part.type = "tool_use" /\ Truthy(part.val)
    THEN measureText(JsonStringify(part.val), mode)
  ELSE JsInt(0)

\* totalSize after the loop over parts; reading .type of null throws
RECURSIVE ClaudePartsSum(_, _, _, _)
ClaudePartsSum(parts, mode, type, total) ==
  IF parts = <<>> THEN total
  ELSE IF Head(parts).type = "null" THEN Thrown
  ELSE ClaudePartsSum(Tail(parts), mode, type,
         JsAdd(total, IF type = "user"
                        THEN ClaudeUserPart(Head(parts), mode)
                        ELSE ClaudeAssistantPart(Head(parts), mode)))

\* the switch of measureClaudeMessage: totalSize before the floor
ClaudeTotal(obj, mode) ==
  CASE obj.type = "summary" ->
         IF obj.summary.k = "str"
           THEN JsAdd(JsInt(0), measureText(obj.summary, mode))
           ELSE JsInt(0)
    [] obj.type = "user" ->
         IF obj.content.k = "str"
           THEN (IF Truthy(obj.content)
                   THEN JsAdd(JsInt(0), measureText(obj.content, mode))
                   ELSE JsInt(0))
         ELSE IF obj.content.k = "arr"
           THEN ClaudePartsSum(obj.content.parts, mode, "user", JsInt(0))
         ELSE JsInt(0)
    [] obj.type = "assistant" ->
         IF obj.content.k = "arr"
           THEN ClaudePartsSum(obj.content.parts, mode, "assistant", JsInt(0))
           ELSE JsInt(0)
    [] OTHER ->
         JsAdd(JsInt(0), measureText(Str(obj.rawLen, obj.rawLen), mode))

\* size.ts measureClaudeMessage: Math.max(totalSize, 1), or the TypeError
measureClaudeMessage(obj, mode) ==
  LET t == ClaudeTotal(obj, mode)
  IN IF t.k = "throw" THEN Thrown ELSE JsMax(t, JsInt(1))

(***************************************************************************)
(* Instants.  A Date is a valid instant (milliseconds since the model's    *)
(* epoch), an Invalid Date (its getTime() is NaN), or null.                *)
(***************************************************************************)
Date(t) == [k |-> "date", t |-> t]
InvalidDate == [k |-> "invalid"]
NullDate == [k |-> "null"]

getTime(d) == IF d.k = "date" THEN JsInt(d.t) ELSE JsNaN

\* a < b on Dates: false as soon as one side is NaN
DateLt(a, b) == a.k = "date" /\ b.k = "date" /\ a.t < b.t
DateLe(a, b) == a.k = "date" /\ b.k = "date" /\ a.t <= b.t

(***************************************************************************)
(* A timestamp field of a JSON record:                                     *)
(*   absent : no such field                                                *)
(*   epoch  : a number v inside the range of Date (0 is falsy)             *)
(*   huge   : a number outside the range of Date, such as 1e300            *)
(*   iso    : an ISO-8601 string denoting instant v                        *)
(*   junk   : a non-empty string no date parser accepts                    *)
(***************************************************************************)
Epoch(v) == [k |-> "epoch", v |-> v]
Huge == [k |-> "huge"]
Iso(v) == [k |-> "iso", v |-> v]
Junk == [k |-> "junk"]

TsTruthy(x) ==
  CASE x.k = "absent" -> FALSE
    [] x.k = "epoch" -> x.v # 0
    [] OTHER -> TRUE

\* new Date(x)
NewDate(x) ==
  CASE x.k = "epoch" -> Date(x.v)
    [] x.k = "iso" -> Date(x.v)
    [] OTHER -> InvalidDate

\* a || b || ... : the first truthy element, else the last one
RECURSIVE FirstTruthy(_)
FirstTruthy(xs) ==
  IF Len(xs) = 1 \/ TsTruthy(Head(xs)) THEN Head(xs) ELSE FirstTruthy(Tail(xs))

\* time.ts parseTimestamp; now is the value of `new Date()`.  A Date
\* instance, valid or not, is returned as it is.
parseTimestamp(timestamp, now) ==
  CASE timestamp.k \in {"date", "invalid"} -> timestamp
    [] timestamp.k \in {"epoch", "huge"} -> NewDate(timestamp)
    [] timestamp.k = "iso" -> Date(timestamp.v)
    [] OTHER -> Date(now)

(***************************************************************************)
(* Strings built by concatenation: only their lengths matter.              *)
(***************************************************************************)
Lit(n) == Str(n, n)
Concat(a, b) == Str(a.len + b.len, a.bytes + b.bytes)

RECURSIVE Join(_, _)
\* parts.join(sep); every element is converted with String()
Join(xs, sep) ==
  IF xs = <<>> THEN Lit(0)
  ELSE IF Len(xs) = 1 THEN ToStr(Head(xs))
  ELSE Concat(Concat(ToStr(Head(xs)), sep), Join(Tail(xs), sep))

\* JSON.stringify(x, null, 2) of a truthy value
PrettyStringify(x) ==
  IF x.k = "obj" THEN Str(x.pretty, x.pretty) ELSE JsonStringify(x)

(***************************************************************************)
(* Source-B parts.  A part file holds                                      *)
(*   [messageID, type, text, reasoning, tool, callID, time, state, json]   *)
(* time = [start, created, end, completed] of timestamp fields (all absent *)
(* when the part has no time object); state is absent or                   *)
(*   [k |-> "state", status, input, output, time];                         *)
(* json is the length of the part's own JSON text.                         *)
(***************************************************************************)
NoTime == [start |-> Absent, created |-> Absent, end |-> Absent,
           completed |-> Absent]
TimeOf(s, e) == [start |-> s, created |-> Absent, end |-> e,
                 completed |-> Absent]
State(status, input, output, time) ==
  [k |-> "state", status |-> status, input |-> input, output |-> output,
   time |-> time]
StateTime(part) == IF part.state.k = "state" THEN part.state.time ELSE NoTime

\* part_000 getPartTimestamp
getPartTimestamp(part) ==
  LET timestamp ==
        FirstTruthy(<<part.time.start, part.time.created, part.time.end,
                      part.time.completed, StateTime(part).start,
                      StateTime(part).created, StateTime(part).end,
                      StateTime(part).completed>>)
  IN IF TsTruthy(timestamp) THEN NewDate(timestamp) ELSE NullDate

\* x || fallback on a Date-or-null
OrElse(d, fallback) == IF d.k = "null" THEN fallback ELSE d

\* `${x || fallback}`
StrOr(x, fallback) == IF Truthy(x) THEN ToStr(x) ELSE fallback

\* part_000 enhanceOpenCodeMessageWithParts: the enhanced object's content
EnhancedContent(role, parts, messageType) ==
  LET toolParts == SelectSeq(parts, LAMBDA q : q.type = "tool")
      textParts == SelectSeq(parts, LAMBDA q : q.type = "text" /\ Truthy(q.text))
      reasoningParts ==
        SelectSeq(parts, LAMBDA q : q.type = "reasoning" /\ Truthy(q.reasoning))
      contentParts ==
        [i \in 1..Len(textParts) |-> textParts[i].text] \o
        [i \in 1..Len(reasoningParts) |->
           Concat(Lit(12), ToStr(reasoningParts[i].reasoning))]
  IN IF Len(toolParts) > 0
       THEN LET toolPart == toolParts[1]
                head == Concat(Concat(Lit(6), StrOr(toolPart.tool, Lit(12))),
                               Concat(Lit(10), StrOr(toolPart.callID, Lit(10))))
            IN IF toolPart.state.k = "state"
                 THEN IF messageType = "tool_call"
                        THEN Concat(head, Concat(Lit(8),
                               IF Truthy(toolPart.state.input)
                                 THEN PrettyStringify(toolPart.state.input)
                                 ELSE Lit(8)))
                        ELSE Concat(head, Concat(Lit(9),
                               StrOr(toolPart.state.output, Lit(9))))
                 ELSE Concat(head, Lit(16))
       ELSE IF Len(contentParts) > 0 THEN Join(contentParts, Lit(2))
       ELSE IF role = "user" THEN Lit(33) ELSE Lit(39)

\* part_000 enhanceOpenCodeMessageWithParts: what the measurer reads of it
enhanceOpenCodeMessageWithParts(obj, parts, messageType) ==
  [parts |-> parts, content |-> EnhancedContent(obj.role, parts, messageType),
   json |-> obj.json]

\* one iteration of the parts loop, size.ts 77-84
OpenCodePart(part, mode, total) ==
  LET t1 == IF Truthy(part.text)
              THEN JsAdd(total, measureText(part.text, mode)) ELSE total
  IN IF part.type \in {"tool-call", "tool_use"}
       THEN JsAdd(t1, measureText(Lit(part.json), mode)) ELSE t1

RECURSIVE OpenCodePartsSum(_, _, _)
OpenCodePartsSum(parts, mode, total) ==
  IF parts = <<>> THEN total
  ELSE OpenCodePartsSum(Tail(parts), mode, OpenCodePart(Head(parts), mode, total))

\* size.ts measureOpenCodeMessage, applied to an enhanced object
measureOpenCodeMessage(enh, mode) ==
  LET t1 == OpenCodePartsSum(enh.parts, mode, JsInt(0))
      t2 == IF Truthy(enh.content)
              THEN JsAdd(t1, measureText(enh.content, mode)) ELSE t1
      t3 == IF t2 = JsInt(0) THEN measureText(Lit(enh.json), mode) ELSE t2
  IN JsMax(t3, JsInt(1))

(***************************************************************************)
(* Array.prototype.sort with comparator key(a) - key(b).  A NaN result is  *)
(* read as +0 (ECMAScript SortCompare), so an element with a NaN key       *)
(* compares equal to every other.  When that comparator is consistent (no  *)
(* NaN key, or all the other keys equal) the sort is the stable ascending  *)
(* one; otherwise ECMAScript leaves the order to the engine and any        *)
(* permutation may come out.                                               *)
(***************************************************************************)
RECURSIVE InsertSorted(_, _)
\* x goes after every element whose key is <= its own
InsertSorted(xs, x) ==
  IF xs = <<>> THEN <<x>>
  ELSE IF Head(xs).key.v <= x.key.v
    THEN <<Head(xs)>> \o InsertSorted(Tail(xs), x)
    ELSE <<x>> \o xs

RECURSIVE StableSort(_)
\* xs is a sequence of [key, item]
StableSort(xs) ==
  IF xs = <<>> THEN <<>>
  ELSE InsertSorted(StableSort(SubSeq(xs, 1, Len(xs) - 1)), xs[Len(xs)])

SortOutcomes(xs, Key(_)) ==
  IF \A i \in 1..Len(xs) : Key(xs[i]).k = "int"
    THEN LET sorted == StableSort([i \in 1..Len(xs) |->
                                     [key |-> Key(xs[i]), item |-> xs[i]]])
         IN {[i \in 1..Len(xs) |-> sorted[i].item]}
  ELSE IF Cardinality({Key(xs[i]).v : i \in {j \in 1..Len(xs) : Key(xs[j]).k = "int"}}) <= 1
    THEN {xs}
    ELSE {[i \in 1..Len(xs) |-> xs[f[i]]] : f \in Permutations(1..Len(xs))}

(***************************************************************************)
(* Messages (types.ts Message).  projectDisplay, projectPath, role and raw *)
(* are carried by the code and read by no operation modelled here.         *)
(***************************************************************************)
Message(tool, sessionId, timestamp, fileModifiedAt, msgType, size) ==
  [tool |-> tool, sessionId |-> sessionId, timestamp |-> timestamp,
   fileModifiedAt |-> fileModifiedAt, msgType |-> msgType, size |-> size]

\* a filter that forgets the bound
shouldIncludeMessage_Always(message, since) == TRUE

\* a filter that also drops the Message written at the very bound
shouldIncludeMessage_Exclusive(message, since) ==
  ~(since.k # "null" /\ DateLe(message.timestamp, since))

\* scanner-claude.ts / part_000 shouldIncludeMessage; since is a Date or null
shouldIncludeMessage(message, since) ==
  ~(since.k # "null" /\ DateLt(message.timestamp, since))

(***************************************************************************)
(* Source-B message files: [id, role, timeCreated, timestamp, createdAt,   *)
(* created, json]; session info is absent or [k |-> "info", created].      *)
(***************************************************************************)
InfoCreated(info) == IF info.k = "info" THEN info.created ELSE Absent

\* part_000 538-544
OpenCodeBaseTimestamp(obj, info, now) ==
  parseTimestamp(FirstTruthy(<<obj.timeCreated, obj.timestamp, obj.createdAt,
                               obj.created, InfoCreated(info)>>), now)

\* the time of the first Date, not the least
MinTime_First(ds) == getTime(Head(ds))

RECURSIVE MinTime(_)
\* Math.min over getTime() values: NaN as soon as one is NaN
MinTime(ds) ==
  IF Len(ds) = 1 THEN getTime(Head(ds))
  ELSE LET a == getTime(Head(ds))
           b == MinTime(Tail(ds))
       IN IF a.k = "int" /\ b.k = "int"
            THEN JsInt(IF a.v <= b.v THEN a.v ELSE b.v) ELSE JsNaN

\* new Date(n) of a JavaScript number
DateOfNumber(n) == IF n.k = "int" THEN Date(n.v) ELSE InvalidDate

\* part_000 554-578: the one Message of a user message
OpenCodeUserMessage(obj, sessionId, info, fileMtime, mode, messageParts, now) ==
  LET starts == [i \in 1..Len(messageParts) |->
                   FirstTruthy(<<messageParts[i].time.start,
                                 messageParts[i].time.created>>)]
      kept == SelectSeq(starts, TsTruthy)
      userTimestamps == [i \in 1..Len(kept) |-> NewDate(kept[i])]
      userTimestamp == IF Len(userTimestamps) > 0
                         THEN DateOfNumber(MinTime(userTimestamps))
                         ELSE OpenCodeBaseTimestamp(obj, info, now)
      enhancedObj == enhanceOpenCodeMessageWithParts(obj, messageParts, "none")
  IN Message("opencode", sessionId, userTimestamp, fileMtime, "user",
             measureOpenCodeMessage(enhancedObj, mode))

\* a test that takes every tool part with a state for completed
ToolCompleted_AnyStatus(part) == part.state.k = "state"

\* part_000 615: part.state && part.state.status === "completed"
ToolCompleted(part) ==
  part.state.k = "state" /\ part.state.status = "completed"

\* part_000 616: the time of the tool_call Message
ToolStartTime(part, fileMtime) ==
  IF TsTruthy(part.state.time.start)
    THEN NewDate(part.state.time.start)
    ELSE OrElse(getPartTimestamp(part), fileMtime)

\* a tool_result that shares the time of its tool_call
ToolEndTime_AtStart(part, startTime) ==
  IF TsTruthy(part.state.time.end)
    THEN NewDate(part.state.time.end)
    ELSE startTime

\* part_000 617: the time of the tool_result Message
ToolEndTime(part, startTime) ==
  IF TsTruthy(part.state.time.end)
    THEN NewDate(part.state.time.end)
    ELSE DateOfNumber(JsAdd(getTime(startTime), JsInt(1)))

\* part_000 594-653: the Messages of one part of an assistant message
OpenCodePartMessages(obj, sessionId, fileMtime, mode, part) ==
  IF part.type \in {"text", "reasoning"}
    THEN <<Message("opencode", sessionId,
                   OrElse(getPartTimestamp(part), fileMtime), fileMtime,
                   "assistant",
                   measureOpenCodeMessage(
                     enhanceOpenCodeMessageWithParts(obj, <<part>>, "none"),
                     mode))>>
  ELSE IF part.type = "tool" /\ ToolCompleted(part)
    THEN LET startTime == ToolStartTime(part, fileMtime)
             endTime == ToolEndTime(part, startTime)
         IN <<Message("opencode", sessionId, startTime, fileMtime, "tool_call",
                      measureOpenCodeMessage(
                        enhanceOpenCodeMessageWithParts(obj, <<part>>, "tool_call"),
                        mode)),
              Message("opencode", sessionId, endTime, fileMtime, "tool_result",
                      measureOpenCodeMessage(
                        enhanceOpenCodeMessageWithParts(obj, <<part>>, "tool_result"),
                        mode))>>
  ELSE <<>>

RECURSIVE OpenCodePartsMessages(_, _, _, _, _)
OpenCodePartsMessages(obj, sessionId, fileMtime, mode, parts) ==
  IF parts = <<>> THEN <<>>
  ELSE OpenCodePartMessages(obj, sessionId, fileMtime, mode, Head(parts)) \o
       OpenCodePartsMessages(obj, sessionId, fileMtime, mode, Tail(parts))

\* a comparator that tells no two parts apart: the parts stay as they are
PartSortKey_Equal(part) == JsInt(0)

\* the sort key of part_000 585-591
PartSortKey(part) ==
  IF getPartTimestamp(part).k = "null" THEN JsInt(0)
  ELSE getTime(getPartTimestamp(part))

\* part_000 parseOpenCodeMessage: the lists of Messages it may return
parseOpenCodeMessage(obj, sessionId, info, fileMtime, mode, messageParts, now) ==
  IF obj.role = "user"
    THEN {<<OpenCodeUserMessage(obj, sessionId, info, fileMtime, mode,
                                messageParts, now)>>}
  ELSE IF obj.role = "assistant"
    THEN {OpenCodePartsMessages(obj, sessionId, fileMtime, mode, sortedParts) :
            sortedParts \in
              SortOutcomes(SelectSeq(messageParts,
                             LAMBDA q : q.type \in {"text", "tool", "reasoning"}),
                           PartSortKey)}
  ELSE {<<>>}

(***************************************************************************)
(* Source-A records:                                                       *)
(*   [sessionId, requestId, conversationId, threadId, timestamp, type,     *)
(*    content, summary, rawLen]                                            *)
(* An identifier is absent or [k |-> "id", v |-> <string>]; content is     *)
(* message.content; rawLen is the length of the record's JSON text.        *)
(***************************************************************************)
Id(v) == [k |-> "id", v |-> v]
IdTruthy(x) == x.k = "id" /\ x.v # ""

\* number of milliseconds of the hour bucket, scanner-claude.ts 161
HourMs == 1000 * 60 * 60

\* a derived id that leaves the directory out
deriveSessionId_NoDir(obj, projectDirName, now) ==
  IF IdTruthy(obj.conversationId) THEN obj.conversationId.v
  ELSE IF IdTruthy(obj.threadId) THEN obj.threadId.v
  ELSE LET timestamp == IF TsTruthy(obj.timestamp)
                          THEN getTime(NewDate(obj.timestamp))
                          ELSE JsInt(now)
       IN IF timestamp.k = "int"
            THEN "session-" \o ToString(timestamp.v \div HourMs)
            ELSE "session-NaN"

\* scanner-claude.ts deriveSessionId; now is the value of Date.now()
deriveSessionId(obj, projectDirName, now) ==
  IF IdTruthy(obj.conversationId) THEN obj.conversationId.v
  ELSE IF IdTruthy(obj.threadId) THEN obj.threadId.v
  ELSE LET timestamp == IF TsTruthy(obj.timestamp)
                          THEN getTime(NewDate(obj.timestamp))
                          ELSE JsInt(now)
       IN IF timestamp.k = "int"
            THEN projectDirName \o "-" \o ToString(timestamp.v \div HourMs)
            ELSE projectDirName \o "-NaN"

RECURSIVE SomePart(_, _)
\* content.some(part => part.type === type): "true", "false", or "throw"
\* for the TypeError of reading .type of null
SomePart(parts, type) ==
  IF parts = <<>> THEN "false"
  ELSE IF Head(parts).type = "null" THEN "throw"
  ELSE IF Head(parts).type = type THEN "true"
  ELSE SomePart(Tail(parts), type)

\* a classification that reads the discriminator only
classifyClaudeMessage_ByType(obj) ==
  IF obj.type = "user" THEN "user" ELSE "assistant"

\* scanner-claude.ts classifyClaudeMessage: a MsgType, or "throw"
classifyClaudeMessage(obj) ==
  CASE obj.type = "user" ->
         IF obj.content.k = "arr"
           THEN LET hasToolResult == SomePart(obj.content.parts, "tool_result")
                IN IF hasToolResult = "throw" THEN "throw"
                   ELSE IF hasToolResult = "true" THEN "tool_result" ELSE "user"
           ELSE "user"
    [] obj.type = "assistant" ->
         IF obj.content.k = "arr"
           THEN LET hasToolUse == SomePart(obj.content.parts, "tool_use")
                IN IF hasToolUse = "throw" THEN "throw"
                   ELSE IF hasToolUse = "true" THEN "tool_call" ELSE "assistant"
           ELSE "assistant"
    [] OTHER -> "assistant"

\* scanner-claude.ts parseClaudeMessage: [k |-> "msg", m |-> Message], or
\* the TypeError raised while classifying or measuring
parseClaudeMessage(obj, projectDirName, fileMtime, mode, now) ==
  LET sessionId == IF IdTruthy(obj.sessionId) THEN obj.sessionId.v
                   ELSE IF IdTruthy(obj.requestId) THEN obj.requestId.v
                   ELSE deriveSessionId(obj, projectDirName, now)
      timestamp == parseTimestamp(obj.timestamp, now)
      msgType == classifyClaudeMessage(obj)
      size == measureClaudeMessage(obj, mode)
  IN IF msgType = "throw" \/ size.k = "throw" THEN Thrown
     ELSE [k |-> "msg",
           m |-> Message("claude-code", sessionId, timestamp, fileMtime,
                         msgType, size)]

(***************************************************************************)
(* The Source-A scan.  A file is [dir, mtime, records]: dir the first path *)
(* segment under claudeRoot, records the objects its lines (or its JSON    *)
(* array) parse to, lines that fail to parse being skipped by readNDJSON.  *)
(* The try/catch encloses the whole file: a record whose processing throws *)
(* ends the file, the Messages pushed before it are kept.                  *)
(***************************************************************************)
RECURSIVE ScanClaudeRecords(_, _, _, _, _, _)
ScanClaudeRecords(records, dir, mtime, mode, since, now) ==
  IF records = <<>> THEN <<>>
  ELSE LET message == parseClaudeMessage(Head(records), dir, mtime, mode, now)
       IN IF message.k = "throw" THEN <<>>
          ELSE (IF shouldIncludeMessage(message.m, since)
                  THEN <<message.m>> ELSE <<>>)
               \o ScanClaudeRecords(Tail(records), dir, mtime, mode, since, now)

RECURSIVE scanClaudeCode(_, _, _, _)
\* scanner-claude.ts scanClaudeCode over the files found under claudeRoot
scanClaudeCode(files, mode, since, now) ==
  IF files = <<>> THEN <<>>
  ELSE ScanClaudeRecords(Head(files).records, Head(files).dir,
                         Date(Head(files).mtime), mode, since, now)
       \o scanClaudeCode(Tail(files), mode, since, now)

(***************************************************************************)
(* The Source-B scan.  The tree is [infos, messages, parts]:               *)
(*   infos    : session id -> session info of the info files               *)
(*   messages : the message files, [sid, mtime, obj]                       *)
(*   parts    : the part files, [mtime, part]                              *)
(***************************************************************************)
\* part_000 485: the parts whose messageID is the message's id
PartsOfMessage(partFiles, id) ==
  LET mine == SelectSeq(partFiles, LAMBDA f : f.part.messageID = id)
  IN [i \in 1..Len(mine) |-> mine[i].part]

RECURSIVE MaxMtime(_, _)
\* part_000 488-491: the reduce over [fileInfo.mtime, ...partTimes]
MaxMtime(times, latest) ==
  IF times = <<>> THEN latest
  ELSE MaxMtime(Tail(times), IF Head(times) > latest THEN Head(times) ELSE latest)

LatestModTime(partFiles, file) ==
  LET mine == SelectSeq(partFiles, LAMBDA f : f.part.messageID = file.obj.id)
  IN MaxMtime(<<file.mtime>> \o [i \in 1..Len(mine) |-> mine[i].mtime],
              file.mtime)

InfoOf(infos, sid) == IF sid \in DOMAIN infos THEN infos[sid] ELSE Absent

RECURSIVE ScanOpenCodeMessages(_, _, _, _, _)
\* part_000 470-504: the lists the loop over the message files may build
ScanOpenCodeMessages(files, tree, mode, since, now) ==
  IF files = <<>> THEN {<<>>}
  ELSE LET file == Head(files)
           parsed ==
             parseOpenCodeMessage(file.obj, file.sid, InfoOf(tree.infos, file.sid),
                                  Date(LatestModTime(tree.parts, file)), mode,
                                  PartsOfMessage(tree.parts, file.obj.id), now)
       IN {SelectSeq(ms, LAMBDA m : shouldIncludeMessage(m, since)) \o rest :
             ms \in parsed,
             rest \in ScanOpenCodeMessages(Tail(files), tree, mode, since, now)}

\* part_000 scanOpenCode
scanOpenCode(tree, mode, since, now) ==
  ScanOpenCodeMessages(tree.messages, tree, mode, since, now)

(***************************************************************************)
(* indexer.ts buildSessions.                                               *)
(***************************************************************************)
\* the key without the tool: sessions of the two tools would merge
SessionKey_NoTool(message) == message.sessionId

\* indexer.ts 70: the key of the session map
SessionKey(message) == message.tool \o ":" \o message.sessionId

RECURSIVE SessionKeys(_, _)
\* the keys of sessionMap in insertion order
SessionKeys(messages, seen) ==
  IF messages = <<>> THEN <<>>
  ELSE IF SessionKey(Head(messages)) \in seen
    THEN SessionKeys(Tail(messages), seen)
    ELSE <<SessionKey(Head(messages))>> \o
         SessionKeys(Tail(messages), seen \cup {SessionKey(Head(messages))})

MessageSortKey(message) == getTime(message.timestamp)

\* a Session that takes the modification time of its first message
LatestModified_First(messages, latest) == latest

RECURSIVE LatestModified(_, _)
\* indexer.ts 88-90: the reduce over fileModifiedAt
LatestModified(messages, latest) ==
  IF messages = <<>> THEN latest
  ELSE LatestModified(Tail(messages),
         IF Head(messages).fileModifiedAt.t > latest.t
           THEN Head(messages).fileModifiedAt ELSE latest)

\* indexer.ts 84-101: the Session of a sorted group
SessionOf(sessionMessages) ==
  LET first == sessionMessages[1]
      last == sessionMessages[Len(sessionMessages)]
  IN [tool |-> first.tool, sessionId |-> first.sessionId,
      startedAt |-> first.timestamp, endedAt |-> last.timestamp,
      fileLastModified |-> LatestModified(sessionMessages, first.fileModifiedAt),
      messages |-> sessionMessages]

RECURSIVE SessionsOfKeys(_, _)
SessionsOfKeys(keys, messages) ==
  IF keys = <<>> THEN {<<>>}
  ELSE {<<SessionOf(sorted)>> \o rest :
          sorted \in SortOutcomes(
                       SelectSeq(messages, LAMBDA m : SessionKey(m) = Head(keys)),
                       MessageSortKey),
          rest \in SessionsOfKeys(Tail(keys), messages)}

\* indexer.ts buildSessions: the lists of Sessions it may return
buildSessions(messages) == SessionsOfKeys(SessionKeys(messages, {}), messages)

(***************************************************************************)
(* time.ts formatDateKey and groupSessionsByDate.  date-fns format() gives *)
(* the calendar day of a valid Date and throws RangeError on an Invalid    *)
(* Date; the key of day n is written "D<n>".                               *)
(***************************************************************************)
DayMs == 24 * HourMs

\* a format pattern that goes down to the hour
formatDateKey_Hour(date) ==
  IF date.k = "date" THEN "D" \o ToString(date.t \div HourMs) ELSE "throw"

formatDateKey(date) ==
  IF date.k = "date" THEN "D" \o ToString(date.t \div DayMs) ELSE "throw"

SessionSortKey(session) == getTime(session.startedAt)

\* time.ts groupSessionsByDate: [k |-> "ok", byDate |-> Map], or the
\* RangeError of formatDateKey
groupSessionsByDate(sessions) ==
  IF \E i \in 1..Len(sessions) : formatDateKey(sessions[i].startedAt) = "throw"
    THEN Thrown
    ELSE [k |-> "ok",
          byDate |->
            [dateKey \in {formatDateKey(sessions[i].startedAt) :
                            i \in 1..Len(sessions)} |->
               LET existing ==
                     SelectSeq(sessions,
                               LAMBDA x : formatDateKey(x.startedAt) = dateKey)
                   sorted == StableSort([i \in 1..Len(existing) |->
                               [key |-> SessionSortKey(existing[i]),
                                item |-> existing[i]]])
               IN [i \in 1..Len(existing) |-> sorted[i].item]]]

(***************************************************************************)
(* indexer.ts generateCacheKey.  ScanOptions is                            *)
(* [claudeRoot, opencodeRoot, sizeMode, since], since a Date or null.      *)
(***************************************************************************)
generateCacheKey(options) ==
  options.claudeRoot \o "|" \o options.opencodeRoot \o "|" \o options.sizeMode
  \o "|" \o (IF options.since.k = "date" /\ options.since.t # 0
               THEN ToString(options.since.t) ELSE "no-since")

\* indexer.ts 13
CACHE_TTL == 5 * 60 * 1000

(***************************************************************************)
(* State.                                                                  *)
(*   claudeTree, openCodeTree : the files under the two roots              *)
(*   now      : the wall clock, Date.now()                                 *)
(*   cache    : indexer.ts `cache`, cache key -> [index, timestamp]        *)
(*              (the stored hash is read by nothing)                       *)
(*   calls    : the buildIndex calls, by call number                       *)
(*   indexes  : the Index objects built so far; the Index built by call c  *)
(*              is indexes[c], so c is the identity of the instance        *)
(*   clears   : how many times clearCache() ran                            *)
(*   steps    : how many calls, returns and clears happened (the order of  *)
(*              events, finer than the clock)                              *)
(* A call records, beside its position and the scanners' results, when it  *)
(* was issued and when it returned (clock, step, number of clears) and the *)
(* Source-A tree at its issue.                                             *)
(*   measured : the record handed to a scanner's parser on its own, and    *)
(*              the Messages it returned                                   *)
(*   store    : AppStore.state; its index is the number of the call that   *)
(*              built it (0 for null), a Session is referred to by the     *)
(*              place it has in the Index object that holds it             *)
(*   messageList : the fields of the MessageListRenderable                 *)
(*   refreshes   : the App.refreshData calls, by number                    *)
(*   timeZone    : the offset of local time from UTC, in milliseconds      *)
(***************************************************************************)
VARIABLES claudeTree, openCodeTree, now, cache, calls, indexes, clears, steps,
          measured, store, messageList, refreshes, timeZone

vars == <<claudeTree, openCodeTree, now, cache, calls, indexes, clears, steps,
          measured, store, messageList, refreshes, timeZone>>

\* the state of the front end: the AppStore, the MessageListRenderable, the
\* App.refreshData calls, and the time zone of the machine
uiVars == <<store, messageList, refreshes, timeZone>>

\* most buildIndex calls of a run
MaxCalls == 2
\* most clearCache() calls of a run
MaxClears == 1
\* the clock of the cache runs reaches MaxTicks half-TTLs
MaxTicks == 2

Pending == [k |-> "pending"]
NoMeasure == [k |-> "none"]
EmptyMap == [x \in {} |-> 0]

IdleCall ==
  [pc |-> "idle", options |-> Absent, claude |-> Pending, opencode |-> Pending,
   outcome |-> "none", result |-> 0,
   issuedAt |-> 0, issuedStep |-> 0, clearsAtIssue |-> 0, treeAtIssue |-> <<>>,
   completedAt |-> 0, completedStep |-> 0, clearsAtReturn |-> 0]

(***************************************************************************)
(* The front end before anything is shown.  A Session object is known by   *)
(* the Index instance that holds it and its place there; the projectDisplay*)
(* of a selection path is the Session's own and is not carried.            *)
(***************************************************************************)
NullSession == [k |-> "null"]
NullPath == [k |-> "null"]

\* the Session at place pos of the bucket dateKey of the Index that call
\* index built
SessionRef(index, dateKey, pos) ==
  [k |-> "session", index |-> index, dateKey |-> dateKey, pos |-> pos]

\* part_002 AppStore constructor; index 0 is null
InitialState ==
  [index |-> 0, selectedSession |-> NullSession, selectedPath |-> NullPath,
   expandedDates |-> {}, isRefreshing |-> FALSE]

\* MessageListRenderable.ts 7-11, the field initialisers
InitialList ==
  [session |-> NullSession, scrollOffset |-> 0, selectedIndex |-> 0,
   expandedIndex |-> -1, expandedScrollOffset |-> 0]

\* no window is open: no store is read, no list is shown, nothing refreshes
InitFrontEnd ==
  /\ store = InitialState
  /\ messageList = InitialList
  /\ refreshes = [c \in 1..MaxCalls |-> "idle"]
  /\ timeZone = 0

\* an entry that is never taken for fresh
CacheFresh_Never(cached, at) == FALSE

\* an entry that is still fresh at the very end of the TTL
CacheFresh_Inclusive(cached, at) == at - cached.timestamp <= CACHE_TTL

\* indexer.ts 19: Date.now() - cached.timestamp < CACHE_TTL
CacheFresh(cached, at) == at - cached.timestamp < CACHE_TTL

\* indexer.ts 15-25: the call is issued; a fresh cache entry is returned
\* at once, otherwise both scanners start
BuildStart(c, options) ==
  /\ calls[c].pc = "idle"
  /\ \A d \in 1..(c - 1) : calls[d].pc # "idle"
  /\ LET cacheKey == generateCacheKey(options)
         issued == [calls[c] EXCEPT !.options = options, !.issuedAt = now,
                                    !.issuedStep = steps + 1,
                                    !.clearsAtIssue = clears,
                                    !.treeAtIssue = claudeTree]
     IN IF cacheKey \in DOMAIN cache /\ CacheFresh(cache[cacheKey], now)
          THEN calls' = [calls EXCEPT ![c] =
                 [issued EXCEPT !.pc = "done", !.outcome = "hit",
                                !.result = cache[cacheKey].index,
                                !.completedAt = now,
                                !.completedStep = steps + 1,
                                !.clearsAtReturn = clears]]
          ELSE calls' = [calls EXCEPT ![c] = [issued EXCEPT !.pc = "scanning"]]
  /\ steps' = steps + 1
  /\ UNCHANGED uiVars
  /\ UNCHANGED <<claudeTree, openCodeTree, now, cache, indexes, clears, measured>>

\* indexer.ts 29: scanClaudeCode(options) resolves
ScanClaudeResolve(c) ==
  /\ calls[c].pc = "scanning"
  /\ calls[c].claude = Pending
  /\ calls' = [calls EXCEPT ![c].claude =
       [k |-> "done", failed |-> FALSE,
        messages |-> scanClaudeCode(claudeTree, calls[c].options.sizeMode,
                                    calls[c].options.since, now)]]
  /\ UNCHANGED uiVars
  /\ UNCHANGED <<claudeTree, openCodeTree, now, cache, indexes, clears, steps,
                 measured>>

\* indexer.ts 29-32: scanClaudeCode(options) rejects, the catch gives []
ScanClaudeReject(c) ==
  /\ calls[c].pc = "scanning"
  /\ calls[c].claude = Pending
  /\ calls' = [calls EXCEPT ![c].claude =
       [k |-> "done", failed |-> TRUE, messages |-> <<>>]]
  /\ UNCHANGED uiVars
  /\ UNCHANGED <<claudeTree, openCodeTree, now, cache, indexes, clears, steps,
                 measured>>

\* indexer.ts 33: scanOpenCode(options) resolves
ScanOpenCodeResolve(c) ==
  /\ calls[c].pc = "scanning"
  /\ calls[c].opencode = Pending
  /\ \E messages \in scanOpenCode(openCodeTree, calls[c].options.sizeMode,
                                  calls[c].options.since, now) :
       calls' = [calls EXCEPT ![c].opencode =
         [k |-> "done", failed |-> FALSE, messages |-> messages]]
  /\ UNCHANGED uiVars
  /\ UNCHANGED <<claudeTree, openCodeTree, now, cache, indexes, clears, steps,
                 measured>>

\* indexer.ts 33-36: scanOpenCode(options) rejects, the catch gives []
ScanOpenCodeReject(c) ==
  /\ calls[c].pc = "scanning"
  /\ calls[c].opencode = Pending
  /\ calls' = [calls EXCEPT ![c].opencode =
       [k |-> "done", failed |-> TRUE, messages |-> <<>>]]
  /\ UNCHANGED uiVars
  /\ UNCHANGED <<claudeTree, openCodeTree, now, cache, indexes, clears, steps,
                 measured>>

\* a map whose set() keeps the entry a key already has
CacheSet_KeepFirst(map, key, entry) ==
  [k \in DOMAIN map \cup {key} |-> IF k \in DOMAIN map THEN map[k] ELSE entry]

\* indexer.ts 53-57: cache.set(cacheKey, entry)
CacheSet(map, key, entry) ==
  [k \in DOMAIN map \cup {key} |-> IF k = key THEN entry ELSE map[k]]

\* a join that drops every result as soon as one scanner failed
AllMessages_FailAll(call) ==
  IF call.claude.failed \/ call.opencode.failed
    THEN <<>> ELSE call.claude.messages \o call.opencode.messages

\* indexer.ts 39: the merged list
AllMessages(call) == call.claude.messages \o call.opencode.messages

\* indexer.ts 39-62: both scans settled; sessions, buckets, cache.set and
\* the return, or the exception of groupSessionsByDate leaving the call
BuildReturn(c) ==
  /\ calls[c].pc = "scanning"
  /\ calls[c].claude # Pending
  /\ calls[c].opencode # Pending
  /\ \E sessions \in buildSessions(AllMessages(calls[c])) :
       LET grouped == groupSessionsByDate(sessions)
           cacheKey == generateCacheKey(calls[c].options)
           returned == [calls[c] EXCEPT !.pc = "done", !.completedAt = now,
                                        !.completedStep = steps + 1,
                                        !.clearsAtReturn = clears]
       IN IF grouped.k = "throw"
            THEN /\ calls' = [calls EXCEPT ![c] =
                      [returned EXCEPT !.outcome = "threw"]]
                 /\ UNCHANGED <<cache, indexes>>
            ELSE /\ calls' = [calls EXCEPT ![c] =
                      [returned EXCEPT !.outcome = "built", !.result = c]]
                 /\ indexes' = [i \in DOMAIN indexes \cup {c} |->
                      IF i = c THEN [byDate |-> grouped.byDate] ELSE indexes[i]]
                 /\ cache' = CacheSet(cache, cacheKey,
                                       [index |-> c, timestamp |-> now])
  /\ steps' = steps + 1
  /\ UNCHANGED <<claudeTree, openCodeTree, now, clears, measured>>

\* buildIndex returns to a caller other than the front end
BuildFinish(c) == BuildReturn(c) /\ UNCHANGED uiVars

\* indexer.ts clearCache
ClearCache ==
  /\ clears < MaxClears
  /\ cache' = EmptyMap
  /\ clears' = clears + 1
  /\ steps' = steps + 1
  /\ UNCHANGED uiVars
  /\ UNCHANGED <<claudeTree, openCodeTree, now, calls, indexes, measured>>

\* the clock moves on to a later instant of points
Tick(points) ==
  /\ \E t \in points : t > now /\ now' = t
  /\ UNCHANGED uiVars
  /\ UNCHANGED <<claudeTree, openCodeTree, cache, calls, indexes, clears, steps,
                 measured>>

\* the files under claudeRoot are rewritten: the tree moves on to a later
\* one of versions
ChangeFiles(versions) ==
  /\ \E i \in 1..Len(versions) : \E j \in (i + 1)..Len(versions) :
       claudeTree = versions[i] /\ claudeTree' = versions[j]
  /\ UNCHANGED uiVars
  /\ UNCHANGED <<openCodeTree, now, cache, calls, indexes, clears, steps,
                 measured>>

(***************************************************************************)
(* Inputs.                                                                 *)
(***************************************************************************)
\* the sequences over S of length at most n
SeqsUpTo(S, n) == UNION {[1..m -> S] : m \in 0..n}

ClaudeRecord(sessionId, timestamp, type, content) ==
  [sessionId |-> sessionId, requestId |-> Absent, conversationId |-> Absent,
   threadId |-> Absent, timestamp |-> timestamp, type |-> type,
   content |-> content, summary |-> Absent, rawLen |-> 2 + MaxStrLen]

OpenCodeObj(id, role, timeCreated) ==
  [id |-> id, role |-> role, timeCreated |-> timeCreated, timestamp |-> Absent,
   createdAt |-> Absent, created |-> Absent, json |-> 2 + MaxStrLen]

PartFile(messageID, type, text, time, state) ==
  [messageID |-> messageID, type |-> type, text |-> text,
   reasoning |-> IF type = "reasoning" THEN text ELSE Absent,
   tool |-> IF type = "tool" THEN Lit(4) ELSE Absent,
   callID |-> IF type = "tool" THEN Lit(6) ELSE Absent,
   time |-> time, state |-> state, json |-> 2 + MaxStrLen]

ScanOptions(mode, since) ==
  [claudeRoot |-> "~/.claude", opencodeRoot |-> "~/.local/share/opencode",
   sizeMode |-> mode, since |-> since]

\* the options of a front end started with no --since, sizes in characters
PlainOptions == ScanOptions("chars", NullDate)

(***************************************************************************)
(* The build runs: one front end, its ScanOptions fixed, builds the index  *)
(* of one file tree twice, a clearCache() in between or not.               *)
(***************************************************************************)
\* most records of the Source-A file
MaxRecords == 2

\* instants of the build runs: half an hour, and the same a day later
EarlyMs == HourMs \div 2
LateMs == DayMs + EarlyMs
FileMtime == HourMs

BuildRecords ==
  {ClaudeRecord(Id("s1"), ts, "user", Lit(3)) :
     ts \in {Iso(EarlyMs), Iso(LateMs), Huge}}
  \cup {ClaudeRecord(Absent, ts, "user", Lit(3)) : ts \in {Absent, Iso(LateMs)}}

BuildClaudeTrees ==
  {<<[dir |-> "p", mtime |-> FileMtime, records |-> rs]>> :
     rs \in SeqsUpTo(BuildRecords, MaxRecords)}

BuildOpenCodeParts ==
  {PartFile("m1", "text", Lit(3), TimeOf(ts, Absent), Absent) :
     ts \in {Iso(EarlyMs), Junk}}
  \cup {PartFile("m1", "tool", Absent, NoTime,
                     State("completed", Absent, Lit(3), TimeOf(Iso(LateMs), Absent)))}

BuildOpenCodeTrees ==
  {[infos |-> EmptyMap, messages |-> <<>>, parts |-> <<>>]}
  \cup {[infos |-> EmptyMap,
         messages |-> <<[sid |-> "s1", mtime |-> FileMtime,
                         obj |-> OpenCodeObj("m1", "user", Iso(EarlyMs))]>>,
         parts |-> <<>>]}
  \cup {[infos |-> EmptyMap,
         messages |-> <<[sid |-> "s1", mtime |-> FileMtime,
                         obj |-> OpenCodeObj("m1", "assistant", Iso(EarlyMs))]>>,
         parts |-> <<[mtime |-> FileMtime + 1, part |-> part]>>] :
          part \in BuildOpenCodeParts}

BuildOptions == {ScanOptions("chars", since) : since \in {NullDate, Date(HourMs)}}

BuildClock == {0, HourMs, DayMs}

InitBuild ==
  /\ claudeTree \in BuildClaudeTrees
  /\ openCodeTree \in BuildOpenCodeTrees
  /\ now = 0
  /\ cache = EmptyMap
  /\ calls = [c \in 1..MaxCalls |-> IdleCall]
  /\ indexes = EmptyMap
  /\ clears = 0
  /\ steps = 0
  /\ InitFrontEnd
  /\ measured = NoMeasure

NoCallScanning == \A c \in 1..MaxCalls : calls[c].pc # "scanning"

\* the first build of the run
FirstBuild == \E options \in BuildOptions : BuildStart(1, options)

\* the second build, with the front end's unchanged options
SecondBuild == NoCallScanning /\ BuildStart(2, calls[1].options)

\* a manual refresh clears the cache between two builds
ClearBetween ==
  /\ calls[1].pc = "done"
  /\ calls[2].pc = "idle"
  /\ clears = 0
  /\ ClearCache

\* time passes between the builds
TickBuild == NoCallScanning /\ Tick(BuildClock)

NextBuild ==
  \/ FirstBuild
  \/ SecondBuild
  \/ \E c \in 1..2 : ScanClaudeResolve(c)
  \/ \E c \in 1..2 : ScanClaudeReject(c)
  \/ \E c \in 1..2 : ScanOpenCodeResolve(c)
  \/ \E c \in 1..2 : ScanOpenCodeReject(c)
  \/ \E c \in 1..2 : BuildFinish(c)
  \/ ClearBetween
  \/ TickBuild

SpecBuild == InitBuild /\ [][NextBuild]_vars

(***************************************************************************)
(* What the properties read.                                               *)
(***************************************************************************)
Built(c) == calls[c].outcome = "built"

\* the places <<dateKey, i>> of the Index built by call c
Slots(c) ==
  UNION {{<<dateKey, i>> : i \in 1..Len(indexes[c].byDate[dateKey])} :
           dateKey \in DOMAIN indexes[c].byDate}

SessionAt(c, slot) == indexes[c].byDate[slot[1]][slot[2]]

Range(xs) == {xs[i] : i \in 1..Len(xs)}

\* the Messages held by the Sessions of the Index built by call c
IndexMessages(c) == UNION {Range(SessionAt(c, slot).messages) : slot \in Slots(c)}

\* C2: no buildIndex call ends with an exception; every call that is over
\* returned an Index.
C2_NeverThrows == \A c \in 1..MaxCalls : calls[c].outcome # "threw"

\* C3: in every Session, startedAt <= m.timestamp <= endedAt for every
\* member message m, and the messages are in ascending order of timestamp.
C3_SessionBounds ==
  \A c \in DOMAIN indexes : \A slot \in Slots(c) :
    LET session == SessionAt(c, slot)
    IN /\ \A i \in 1..Len(session.messages) :
            /\ DateLe(session.startedAt, session.messages[i].timestamp)
            /\ DateLe(session.messages[i].timestamp, session.endedAt)
       /\ \A i \in 1..Len(session.messages) : \A j \in i..Len(session.messages) :
            DateLe(session.messages[i].timestamp, session.messages[j].timestamp)

\* C4: in every Index no two Sessions share (tool, sessionId), and every
\* member message carries its Session's tool and sessionId.
C4_UniqueSessionKey ==
  \A c \in DOMAIN indexes :
    /\ \A a \in Slots(c) : \A b \in Slots(c) :
         (SessionAt(c, a).tool = SessionAt(c, b).tool
          /\ SessionAt(c, a).sessionId = SessionAt(c, b).sessionId) => a = b
    /\ \A slot \in Slots(c) : \A m \in Range(SessionAt(c, slot).messages) :
         /\ m.tool = SessionAt(c, slot).tool
         /\ m.sessionId = SessionAt(c, slot).sessionId

\* an Index holding a Source-A and a Source-B Session of the same session
\* id, one of them with two messages
C4_Witness ==
  \E c \in DOMAIN indexes : \E a \in Slots(c) : \E b \in Slots(c) :
    /\ SessionAt(c, a).tool = "claude-code"
    /\ SessionAt(c, b).tool = "opencode"
    /\ SessionAt(c, a).sessionId = SessionAt(c, b).sessionId
    /\ Len(SessionAt(c, b).messages) = 2

\* the (tool, sessionId) pairs of the Messages call c merged
MergedKeys(c) ==
  {<<m.tool, m.sessionId>> :
     m \in Range(calls[c].claude.messages) \cup Range(calls[c].opencode.messages)}

\* C5: every Session of an Index sits in exactly one date bucket, the one
\* of the calendar day of its own startedAt.
C5_OneBucketPerSession ==
  \A c \in DOMAIN indexes :
    /\ \A slot \in Slots(c) :
         /\ SessionAt(c, slot).startedAt.k = "date"
         /\ slot[1] = "D" \o ToString(SessionAt(c, slot).startedAt.t \div DayMs)
    /\ \A key \in MergedKeys(c) :
         Cardinality({slot \in Slots(c) :
                        <<SessionAt(c, slot).tool, SessionAt(c, slot).sessionId>>
                          = key}) = 1

\* an Index with two buckets, one of them holding a Session that ends on a
\* later day than it starts
C5_Witness ==
  \E c \in DOMAIN indexes :
    /\ Cardinality(DOMAIN indexes[c].byDate) = 2
    /\ \E slot \in Slots(c) :
         /\ SessionAt(c, slot).endedAt.k = "date"
         /\ SessionAt(c, slot).endedAt.t \div DayMs
              > SessionAt(c, slot).startedAt.t \div DayMs

\* C8: when one scanner rejected, the Index holds exactly the Messages the
\* other scanner returned, grouped in Sessions.
C8_FailureIsolation ==
  \A c \in DOMAIN indexes :
    /\ (calls[c].claude.failed /\ ~calls[c].opencode.failed) =>
         /\ IndexMessages(c) = Range(calls[c].opencode.messages)
         /\ {<<SessionAt(c, slot).tool, SessionAt(c, slot).sessionId>> :
               slot \in Slots(c)}
              = {<<m.tool, m.sessionId>> : m \in Range(calls[c].opencode.messages)}
    /\ (calls[c].opencode.failed /\ ~calls[c].claude.failed) =>
         /\ IndexMessages(c) = Range(calls[c].claude.messages)
         /\ {<<SessionAt(c, slot).tool, SessionAt(c, slot).sessionId>> :
               slot \in Slots(c)}
              = {<<m.tool, m.sessionId>> : m \in Range(calls[c].claude.messages)}

\* the Source-A scan rejected while Source-B has messages on disk, and the
\* Index holds a Session
C8_Witness ==
  \E c \in DOMAIN indexes :
    /\ calls[c].claude.failed
    /\ claudeTree[1].records # <<>>
    /\ ~calls[c].opencode.failed
    /\ Slots(c) # {}

\* C9: with since set, no Message of the Index has timestamp < since, and
\* every Session of the Index has kept a message.
C9_SinceFilter ==
  \A c \in DOMAIN indexes :
    calls[c].options.since.k = "date" =>
      /\ \A m \in IndexMessages(c) : ~DateLt(m.timestamp, calls[c].options.since)
      /\ \A slot \in Slots(c) : SessionAt(c, slot).messages # <<>>

\* the tree holds Source-A records of session s1, all of them before since,
\* and the Index, not empty, has no Source-A Session s1
C9_Witness ==
  \E c \in DOMAIN indexes :
    /\ calls[c].options.since = Date(HourMs)
    /\ ~calls[c].claude.failed
    /\ claudeTree[1].records # <<>>
    /\ \A i \in 1..Len(claudeTree[1].records) :
         /\ claudeTree[1].records[i].sessionId = Id("s1")
         /\ claudeTree[1].records[i].timestamp = Iso(EarlyMs)
    /\ Slots(c) # {}
    /\ \A slot \in Slots(c) : SessionAt(c, slot).tool # "claude-code"

\* what C10 compares of an Index: its Sessions, each with the types and
\* sizes of its messages in order
SessionShapes(c) ==
  {[tool |-> SessionAt(c, slot).tool, sessionId |-> SessionAt(c, slot).sessionId,
    messages |-> [i \in 1..Len(SessionAt(c, slot).messages) |->
                    <<SessionAt(c, slot).messages[i].msgType,
                      SessionAt(c, slot).messages[i].size>>]] :
     slot \in Slots(c)}

\* C10: two builds of the same tree with the same options, clearCache()
\* having run between them and no scanner failing, yield the same Sessions with the same messages
\* in the same order.
C10_Idempotent ==
  (/\ Built(1) /\ Built(2)
   /\ calls[2].clearsAtIssue > calls[1].clearsAtReturn
   /\ \A c \in 1..2 : ~calls[c].claude.failed /\ ~calls[c].opencode.failed)
  => SessionShapes(1) = SessionShapes(2)

(***************************************************************************)
(* The cache runs: up to MaxCalls overlapping buildIndex calls of one      *)
(* front end, clearCache() at any moment, the clock moving by half a TTL   *)
(* at a time, the Source-A file rewritten at any moment.  The first        *)
(* content of the file indexes, the second makes the build throw.          *)
(***************************************************************************)
CacheTrees ==
  <<<<[dir |-> "p", mtime |-> FileMtime,
       records |-> <<ClaudeRecord(Id("s1"), Iso(EarlyMs), "user", Lit(3))>>]>>,
    <<[dir |-> "p", mtime |-> FileMtime + 1,
       records |-> <<ClaudeRecord(Id("s1"), Huge, "user", Lit(3))>>]>>>>

CacheOptions == {ScanOptions("chars", NullDate)}

CacheClock == {n * (CACHE_TTL \div 2) : n \in 0..MaxTicks}

InitCache ==
  /\ claudeTree = CacheTrees[1]
  /\ openCodeTree = [infos |-> EmptyMap, messages |-> <<>>, parts |-> <<>>]
  /\ now = 0
  /\ cache = EmptyMap
  /\ calls = [c \in 1..MaxCalls |-> IdleCall]
  /\ indexes = EmptyMap
  /\ clears = 0
  /\ steps = 0
  /\ InitFrontEnd
  /\ measured = NoMeasure

TickCache == Tick(CacheClock)

RewriteFiles == ChangeFiles(CacheTrees)

NextCache ==
  \/ \E c \in 1..MaxCalls : \E options \in CacheOptions : BuildStart(c, options)
  \/ \E c \in 1..MaxCalls : ScanClaudeResolve(c)
  \/ \E c \in 1..MaxCalls : ScanOpenCodeResolve(c)
  \/ \E c \in 1..MaxCalls : BuildFinish(c)
  \/ ClearCache
  \/ TickCache
  \/ RewriteFiles

SpecCache == InitCache /\ [][NextCache]_vars

\* the calls that have returned an Index to their caller
Returned(c) == calls[c].pc = "done" /\ calls[c].result # 0

\* call d was issued after call c had completed
IssuedAfter(d, c) ==
  /\ calls[c].pc = "done"
  /\ calls[d].pc # "idle"
  /\ calls[d].issuedStep > calls[c].completedStep

SameOptions(c, d) ==
  generateCacheKey(calls[c].options) = generateCacheKey(calls[d].options)

StoredBetween(c, d) ==
  \E e \in 1..MaxCalls :
    /\ calls[e].outcome = "built"
    /\ SameOptions(e, c)
    /\ calls[e].completedStep > calls[c].completedStep
    /\ calls[e].completedStep < calls[d].issuedStep

C7_RescanAfterClear ==
  \A c \in 1..MaxCalls :
    Returned(c) =>
      calls[calls[c].result].clearsAtIssue >= calls[c].clearsAtIssue

(***************************************************************************)
(* The sizing runs: one record of either source is handed to its scanner's *)
(* parser, as the scan loops do, and the Messages it returns are kept.     *)
(* Field values are missing, empty strings, strings (one of them with      *)
(* multi-byte characters), numbers and objects, whatever JSON lets a file  *)
(* hold.                                                                   *)
(***************************************************************************)
SizeValues == {Absent, Lit(0), Str(MaxStrLen - 2, MaxStrLen), Num(2), Obj(7, 15)}

SizeClaudeParts ==
  {NullPart}
  \cup {[type |-> type, val |-> val] :
          type \in {"text", "thinking", "tool_use", "tool_result"},
          val \in SizeValues}

SizeClaudeContents ==
  {Absent, Lit(0), Lit(3)}
  \cup {Arr(parts) : parts \in SeqsUpTo(SizeClaudeParts, MaxParts)}

SizeClaudeRecords ==
  {ClaudeRecord(Id("s1"), Iso(EarlyMs), type, content) :
     type \in {"user", "assistant", "system"}, content \in SizeClaudeContents}
  \cup {[ClaudeRecord(Id("s1"), Iso(EarlyMs), "summary", Absent)
           EXCEPT !.summary = summary] : summary \in SizeValues}

SizeOpenCodeParts ==
  {PartFile("m1", type, text, TimeOf(Iso(EarlyMs), Absent), Absent) :
     type \in {"text", "reasoning"}, text \in SizeValues \ {Obj(7, 15)}}
  \cup {PartFile("m1", "tool", Absent, NoTime,
                 State("completed", input, output, TimeOf(Iso(EarlyMs), Absent))) :
          input \in {Absent, Obj(7, 15)}, output \in {Absent, Lit(3), Num(2)}}

InitSize ==
  /\ claudeTree = <<>>
  /\ openCodeTree = [infos |-> EmptyMap, messages |-> <<>>, parts |-> <<>>]
  /\ now = 0
  /\ cache = EmptyMap
  /\ calls = [c \in 1..MaxCalls |-> IdleCall]
  /\ indexes = EmptyMap
  /\ clears = 0
  /\ steps = 0
  /\ InitFrontEnd
  /\ \E mode \in SizeModes :
       \/ \E obj \in SizeClaudeRecords :
            measured = [k |-> "record", tool |-> "claude-code", obj |-> obj,
                        parts |-> <<>>, mode |-> mode]
       \/ \E role \in {"user", "assistant"} :
            \E parts \in SeqsUpTo(SizeOpenCodeParts, MaxParts) :
              measured = [k |-> "record", tool |-> "opencode",
                          obj |-> OpenCodeObj("m1", role, Iso(EarlyMs)),
                          parts |-> parts, mode |-> mode]

\* scanner-claude.ts 58-66: one record of a Source-A file is parsed; a
\* TypeError leaves the loop with no Message
ParseClaudeRecord ==
  /\ measured.k = "record"
  /\ measured.tool = "claude-code"
  /\ LET message == parseClaudeMessage(measured.obj, "p", Date(FileMtime),
                                       measured.mode, now)
     IN measured' = [k |-> "parsed", tool |-> measured.tool,
                     obj |-> measured.obj, parts |-> measured.parts,
                     mode |-> measured.mode,
                     threw |-> message.k = "throw",
                     messages |-> IF message.k = "throw" THEN <<>>
                                  ELSE <<message.m>>]
  /\ UNCHANGED uiVars
  /\ UNCHANGED <<claudeTree, openCodeTree, now, cache, calls, indexes, clears,
                 steps>>

\* part_000 493-500: one Source-B message file is parsed with its parts
ParseOpenCodeRecord ==
  /\ measured.k = "record"
  /\ measured.tool = "opencode"
  /\ \E messages \in parseOpenCodeMessage(measured.obj, "s1", Absent,
                                          Date(FileMtime), measured.mode,
                                          measured.parts, now) :
       measured' = [k |-> "parsed", tool |-> measured.tool,
                    obj |-> measured.obj, parts |-> measured.parts,
                    mode |-> measured.mode, threw |-> FALSE,
                    messages |-> messages]
  /\ UNCHANGED uiVars
  /\ UNCHANGED <<claudeTree, openCodeTree, now, cache, calls, indexes, clears,
                 steps>>

NextSize ==
  \/ ParseClaudeRecord
  \/ ParseOpenCodeRecord

SpecSize == InitSize /\ [][NextSize]_vars

\* C1: every Message a scanner's parser returns has an integer size of at
\* least 1, whatever the size mode and the shape of the record.
C1_SizeAtLeastOne ==
  measured.k = "parsed" =>
    \A i \in 1..Len(measured.messages) :
      /\ measured.messages[i].size.k = "int"
      /\ measured.messages[i].size.v >= 1

(***************************************************************************)
(* The parsing runs: one record of either source, with whatever its        *)
(* timestamp and identifier fields hold, is handed to its scanner's        *)
(* parser at some wall-clock time; or one value is handed to the timestamp *)
(* normalizer as parseClaudeMessage hands it (scanner-claude.ts 108).      *)
(***************************************************************************)
ParseClock == {0, DayMs}

\* what a timestamp field of a JSON record may hold
ParseTimestamps ==
  {Absent, Epoch(0), Epoch(LateMs), Huge, Iso(EarlyMs), Junk}

ParseClaudeRecords ==
  {ClaudeRecord(sessionId, timestamp, type, Lit(3)) :
     sessionId \in {Absent, Id("s1")}, timestamp \in ParseTimestamps,
     type \in {"user", "assistant"}}

\* the times a part file may carry
ParsePartTimes ==
  {NoTime, TimeOf(Iso(EarlyMs), Absent), TimeOf(Iso(LateMs), Absent),
   [NoTime EXCEPT !.created = Iso(EarlyMs)],
   [NoTime EXCEPT !.start = Iso(LateMs), !.created = Iso(EarlyMs)],
   TimeOf(Epoch(0), Absent),
   TimeOf(Junk, Absent)}

ParseToolStates ==
  {Absent}
  \cup {State(status, Absent, Lit(3), TimeOf(Iso(EarlyMs), Absent)) :
          status \in {"pending", "running"}}
  \cup {State("completed", Absent, Lit(3), time) :
          time \in {TimeOf(Iso(EarlyMs), Iso(LateMs)),
                    TimeOf(Iso(LateMs), Absent),
                    TimeOf(Iso(EarlyMs), Epoch(0)),
                    TimeOf(Junk, Absent),
                    NoTime}}

ParseOpenCodeParts ==
  {PartFile("m1", "text", Lit(3), time, Absent) : time \in ParsePartTimes}
  \cup {PartFile("m1", "reasoning", Lit(3), time, Absent) :
          time \in {NoTime, TimeOf(Iso(LateMs), Absent)}}
  \cup {PartFile("m1", "tool", Absent, NoTime, state) : state \in ParseToolStates}
  \cup {PartFile("m1", "step-start", Absent, TimeOf(Iso(EarlyMs), Absent), Absent)}

InitParse ==
  /\ claudeTree = <<>>
  /\ openCodeTree = [infos |-> EmptyMap, messages |-> <<>>, parts |-> <<>>]
  /\ now \in ParseClock
  /\ cache = EmptyMap
  /\ calls = [c \in 1..MaxCalls |-> IdleCall]
  /\ indexes = EmptyMap
  /\ clears = 0
  /\ steps = 0
  /\ InitFrontEnd
  /\ \/ \E obj \in ParseClaudeRecords :
          measured = [k |-> "record", tool |-> "claude-code", obj |-> obj,
                      parts |-> <<>>, mode |-> "chars"]
     \/ \E role \in {"user", "assistant", "system"} :
          \E timeCreated \in {Absent, Iso(FileMtime)} :
            \E parts \in SeqsUpTo(ParseOpenCodeParts, MaxParts) :
              measured = [k |-> "record", tool |-> "opencode",
                          obj |-> OpenCodeObj("m1", role, timeCreated),
                          parts |-> parts, mode |-> "chars"]
     \/ \E timestamp \in ParseTimestamps \cup {Date(EarlyMs), InvalidDate} :
          measured = [k |-> "timestamp", timestamp |-> timestamp]

\* scanner-claude.ts 108: parseTimestamp(obj.timestamp) || fileMtime; a
\* Date, being an object, is never falsy
NormalizeTimestamp ==
  /\ measured.k = "timestamp"
  /\ measured' = [k |-> "normalized", timestamp |-> measured.timestamp,
                  result |-> OrElse(parseTimestamp(measured.timestamp, now),
                                    Date(FileMtime))]
  /\ UNCHANGED uiVars
  /\ UNCHANGED <<claudeTree, openCodeTree, now, cache, calls, indexes, clears,
                 steps>>

NextParse ==
  \/ ParseClaudeRecord
  \/ ParseOpenCodeRecord
  \/ NormalizeTimestamp

SpecParse == InitParse /\ [][NextParse]_vars

\* a timestamp field no date parser accepts, or none at all
Unparsable(timestamp) == timestamp.k \in {"absent", "junk"}

\* C11: a Source-A record with no parsable timestamp and no session id
\* gives a Message whose sessionId is the derived id and whose timestamp is
\* the mtime of its file.
C11_MtimeFallback ==
  (/\ measured.k = "parsed"
   /\ measured.tool = "claude-code"
   /\ Unparsable(measured.obj.timestamp)
   /\ ~IdTruthy(measured.obj.sessionId)
   /\ ~IdTruthy(measured.obj.requestId))
  => /\ Len(measured.messages) = 1
     /\ measured.messages[1].sessionId = deriveSessionId(measured.obj, "p", now)
     /\ measured.messages[1].timestamp = Date(FileMtime)

\* a time field holding an instant the code reads as recorded: an ISO
\* string or a non-zero number inside the range of Date
RecordedInstant(x) == x.k = "iso" \/ (x.k = "epoch" /\ x.v # 0)

Completed(part) ==
  part.type = "tool" /\ part.state.k = "state" /\ part.state.status = "completed"

\* the number of elements of xs that satisfy Test
Count(xs, Test(_)) == Cardinality({i \in 1..Len(xs) : Test(xs[i])})

ParsedAssistant ==
  /\ measured.k = "parsed"
  /\ measured.tool = "opencode"
  /\ measured.obj.role = "assistant"

\* C12: the completed tool parts of an assistant message yield two
\* Messages each, a tool_call directly followed by a tool_result; the
\* tool_call carries the recorded start time and the tool_result the
\* recorded end time, or the start time + 1 ms when no end time is recorded.
C12_CompletedToolPair ==
  ParsedAssistant =>
    LET ms == measured.messages
    IN /\ Count(ms, LAMBDA m : m.msgType = "tool_call")
            = Count(measured.parts, Completed)
       /\ Count(ms, LAMBDA m : m.msgType = "tool_result")
            = Count(measured.parts, Completed)
       /\ \A i \in 1..Len(ms) :
            ms[i].msgType = "tool_call" =>
              i < Len(ms) /\ ms[i + 1].msgType = "tool_result"
       /\ \A j \in 1..Len(measured.parts) :
            LET part == measured.parts[j]
            IN (/\ Completed(part)
                /\ RecordedInstant(part.state.time.start)
                /\ (RecordedInstant(part.state.time.end)
                      \/ part.state.time.end.k = "absent"))
               => \E i \in 1..(Len(ms) - 1) :
                    /\ ms[i].msgType = "tool_call"
                    /\ ms[i].timestamp = Date(part.state.time.start.v)
                    /\ ms[i + 1].msgType = "tool_result"
                    /\ ms[i + 1].timestamp =
                         IF part.state.time.end.k = "absent"
                           THEN Date(part.state.time.start.v + 1)
                           ELSE Date(part.state.time.end.v)

\* a message with a completed tool part that records no end time has been
\* parsed together with a completed tool part that records one
C12_Witness ==
  /\ ParsedAssistant
  /\ \E j \in 1..Len(measured.parts) :
       /\ Completed(measured.parts[j])
       /\ RecordedInstant(measured.parts[j].state.time.start)
       /\ measured.parts[j].state.time.end.k = "absent"
  /\ \E j \in 1..Len(measured.parts) :
       /\ Completed(measured.parts[j])
       /\ RecordedInstant(measured.parts[j].state.time.end)
  /\ Len(measured.messages) = 4

\* every part has a number as its sort key (no time field holds a string
\* that is no date)
NumericSortKeys(parts) ==
  \A j \in 1..Len(parts) :
    \A x \in {parts[j].time.start, parts[j].time.created, parts[j].time.end,
              parts[j].time.completed, StateTime(parts[j]).start,
              StateTime(parts[j]).created, StateTime(parts[j]).end,
              StateTime(parts[j]).completed} :
      x.k \in {"absent", "iso", "epoch"}

\* C13: a tool part with no state, or a status other than "completed",
\* yields no Message: the Messages of an assistant message are one per text
\* or reasoning part and two per completed tool part, and they are the
\* Messages the same message yields without its other tool parts.
C13_PendingToolSilent ==
  ParsedAssistant =>
    /\ Len(measured.messages) =
         Count(measured.parts, LAMBDA q : q.type \in {"text", "reasoning"})
         + 2 * Count(measured.parts, Completed)
    /\ NumericSortKeys(measured.parts) =>
         measured.messages \in
           parseOpenCodeMessage(
             measured.obj, "s1", Absent, Date(FileMtime), measured.mode,
             SelectSeq(measured.parts,
                       LAMBDA q : q.type # "tool" \/ Completed(q)),
             now)

\* an assistant message with a text part and a tool part that is pending,
\* running or without state has been parsed
C13_Witness ==
  /\ ParsedAssistant
  /\ NumericSortKeys(measured.parts)
  /\ \E j \in 1..Len(measured.parts) :
       measured.parts[j].type = "tool" /\ ~Completed(measured.parts[j])
  /\ \E j \in 1..Len(measured.parts) : measured.parts[j].type = "text"
  /\ Len(measured.messages) = 1

(***************************************************************************)
(* The stream-file runs: one Source-A file of three records of the same    *)
(* session, of any discriminator and content shape, written at three       *)
(* different instants in any order, is indexed by one buildIndex call.     *)
(***************************************************************************)
StreamContents ==
  {Lit(3)}
  \cup {Arr(parts) :
          parts \in {<<[type |-> "text", val |-> Lit(3)]>>,
                     <<[type |-> "text", val |-> Lit(3)],
                       [type |-> "tool_use", val |-> Obj(7, 15)]>>,
                     <<[type |-> "tool_result", val |-> Lit(3)]>>}}

StreamInstants == <<EarlyMs, FileMtime, LateMs>>

StreamTrees ==
  {<<[dir |-> "p", mtime |-> LateMs,
      records |-> [i \in 1..3 |->
                     ClaudeRecord(Id("s1"), Iso(StreamInstants[order[i]]),
                                  kind[i][1], kind[i][2])]]>> :
     order \in Permutations(1..3),
     kind \in [1..3 -> {"user", "assistant", "system"} \X StreamContents]}

InitStream ==
  /\ claudeTree \in StreamTrees
  /\ openCodeTree = [infos |-> EmptyMap, messages |-> <<>>, parts |-> <<>>]
  /\ now = DayMs + HourMs
  /\ cache = EmptyMap
  /\ calls = [c \in 1..MaxCalls |-> IdleCall]
  /\ indexes = EmptyMap
  /\ clears = 0
  /\ steps = 0
  /\ InitFrontEnd
  /\ measured = NoMeasure

NextStream ==
  \/ BuildStart(1, PlainOptions)
  \/ ScanClaudeResolve(1)
  \/ ScanOpenCodeResolve(1)
  \/ BuildFinish(1)

SpecStream == InitStream /\ [][NextStream]_vars

HasPart(content, type) ==
  content.k = "arr" /\ \E i \in 1..Len(content.parts) : content.parts[i].type = type

\* the MsgType the classification rules give a record
RuleType(obj) ==
  CASE obj.type = "user" ->
         IF HasPart(obj.content, "tool_result") THEN "tool_result" ELSE "user"
    [] obj.type = "assistant" ->
         IF HasPart(obj.content, "tool_use") THEN "tool_call" ELSE "assistant"
    [] OTHER -> "assistant"

\* C14: the three records of the file end up as one Session of three
\* Messages, in ascending order of time, and the Message of each record
\* has the one MsgType the rules give: tool_result for a user record with a
\* tool_result part, else user; tool_call for an assistant record with a
\* tool_use part, else assistant; assistant for any other type.
C14_Classification ==
  Built(1) =>
    /\ Cardinality(Slots(1)) = 1
    /\ \A slot \in Slots(1) :
         LET ms == SessionAt(1, slot).messages
             records == calls[1].treeAtIssue[1].records
         IN /\ Len(ms) = 3
            /\ \A i \in 1..3 : ms[i].timestamp = Date(StreamInstants[i])
            /\ \A i \in 1..3 : \A j \in 1..3 :
                 records[j].timestamp = Iso(StreamInstants[i])
                   => ms[i].msgType = RuleType(records[j])

\* the file with the lines user, assistant with text, assistant with
\* tool use has been indexed: one Session, typed user, assistant, tool_call
C14_Witness ==
  /\ Built(1)
  /\ LET records == calls[1].treeAtIssue[1].records
     IN /\ records[1].type = "user" /\ records[1].content = Lit(3)
        /\ records[2].type = "assistant" /\ ~HasPart(records[2].content, "tool_use")
        /\ records[2].content.k = "arr"
        /\ records[3].type = "assistant" /\ HasPart(records[3].content, "tool_use")
        /\ \A i \in 1..3 : records[i].timestamp = Iso(StreamInstants[i])
  /\ \E slot \in Slots(1) :
       [i \in 1..3 |-> SessionAt(1, slot).messages[i].msgType]
         = <<"user", "assistant", "tool_call">>

\* C15: whatever it is given (a Date, a number, a string, nothing), the
\* timestamp normalizer returns a valid instant, and for an input that
\* cannot be parsed that instant is the mtime of the file.
C15_UsableInstant ==
  measured.k = "normalized" =>
    /\ measured.result.k = "date"
    /\ Unparsable(measured.timestamp) => measured.result = Date(FileMtime)

(***************************************************************************)
(* The cache-key runs: buildIndex calls with ScanOptions that differ in    *)
(* one field or another, against one file tree, inside one TTL window.     *)
(***************************************************************************)
KeyOptions ==
  {ScanOptions(mode, since) :
     mode \in {"chars", "bytes"}, since \in {NullDate, Date(0), Date(HourMs)}}
  \cup {[ScanOptions("chars", NullDate) EXCEPT !.claudeRoot = "/data/claude"],
        [ScanOptions("chars", NullDate) EXCEPT !.opencodeRoot = "/data/opencode"]}

InitKeys ==
  /\ claudeTree = CacheTrees[1]
  /\ openCodeTree = [infos |-> EmptyMap, messages |-> <<>>, parts |-> <<>>]
  /\ now = 0
  /\ cache = EmptyMap
  /\ calls = [c \in 1..MaxCalls |-> IdleCall]
  /\ indexes = EmptyMap
  /\ clears = 0
  /\ steps = 0
  /\ InitFrontEnd
  /\ measured = NoMeasure

NextKeys ==
  \/ \E c \in 1..MaxCalls : \E options \in KeyOptions : BuildStart(c, options)
  \/ \E c \in 1..MaxCalls : ScanClaudeResolve(c)
  \/ \E c \in 1..MaxCalls : ScanOpenCodeResolve(c)
  \/ \E c \in 1..MaxCalls : BuildFinish(c)

SpecKeys == InitKeys /\ [][NextKeys]_vars

\* C16: calls whose ScanOptions differ in a root, the size mode or since
\* have different cache keys, and the Index a call returns was built for
\* the very options of the call.
C16_KeyPerOptions ==
  /\ \A c \in 1..MaxCalls : \A d \in 1..MaxCalls :
       (calls[c].pc # "idle" /\ calls[d].pc # "idle"
        /\ calls[c].options # calls[d].options)
       => generateCacheKey(calls[c].options) # generateCacheKey(calls[d].options)
  /\ \A c \in 1..MaxCalls :
       Returned(c) => calls[calls[c].result].options = calls[c].options

(***************************************************************************)
(* The overlapping runs: up to MaxCalls buildIndex calls of one front end  *)
(* that overlap in any way, clearCache() at any moment, the clock moving   *)
(* by half a TTL at a time, over a file tree that does not change.         *)
(***************************************************************************)
NextFlight ==
  \/ \E c \in 1..MaxCalls : \E options \in CacheOptions : BuildStart(c, options)
  \/ \E c \in 1..MaxCalls : ScanClaudeResolve(c)
  \/ \E c \in 1..MaxCalls : ScanOpenCodeResolve(c)
  \/ \E c \in 1..MaxCalls : BuildFinish(c)
  \/ ClearCache
  \/ TickCache

SpecFlight == InitCache /\ [][NextFlight]_vars

\* call d was issued while call c, issued before it, was still scanning
IssuedDuring(d, c) ==
  /\ calls[c].pc # "idle"
  /\ calls[c].outcome # "hit"
  /\ calls[d].pc # "idle"
  /\ calls[d].issuedStep > calls[c].issuedStep
  /\ calls[c].pc = "scanning" \/ calls[c].completedStep > calls[d].issuedStep

\* a build with the options of c stored its Index between event steps
\* lo and hi
StoredWithin(c, lo, hi) ==
  \E e \in 1..MaxCalls :
    /\ calls[e].outcome = "built"
    /\ SameOptions(e, c)
    /\ calls[e].completedStep > lo
    /\ calls[e].completedStep < hi

\* call c was the last to store an Index for its options, and no
\* clearCache() ran since
LastStore(c) ==
  /\ Built(c)
  /\ clears = calls[c].clearsAtReturn
  /\ ~StoredWithin(c, calls[c].completedStep, steps + 1)

\* C17: a call issued with the options of a call that is still scanning
\* (no build having stored an Index for them in the meantime) misses the
\* cache and scans as well; each of the two returns the Index it built
\* itself, and the cache holds the Index of the one that completed last.
C17_NoSingleFlight ==
  \A c \in 1..MaxCalls : \A d \in 1..MaxCalls :
    (/\ IssuedDuring(d, c)
     /\ SameOptions(c, d)
     /\ ~StoredWithin(c, calls[c].issuedStep, calls[d].issuedStep))
    => /\ calls[d].outcome # "hit"
       /\ (Built(c) /\ Built(d)) =>
            /\ calls[c].result = c /\ calls[d].result = d
            /\ calls[c].completedStep # calls[d].completedStep
            /\ \A last \in {c, d} :
                 (/\ \A e \in {c, d} : calls[e].completedStep <= calls[last].completedStep
                  /\ LastStore(last))
                 => cache[generateCacheKey(calls[last].options)].index = last

\* two overlapping builds for the same options have both returned their
\* own Index; the one issued first completed last and the cache holds its
\* Index
C17_Witness ==
  \E c \in 1..MaxCalls : \E d \in 1..MaxCalls :
    /\ IssuedDuring(d, c)
    /\ SameOptions(c, d)
    /\ Built(c) /\ Built(d)
    /\ calls[d].completedStep < calls[c].completedStep
    /\ cache[generateCacheKey(calls[c].options)].index = c

\* C18: a call issued when the entry of its key, stored by an earlier
\* build, is 5 minutes old or older scans again, and the Index it builds
\* replaces the entry, with the time of the new store.
C18_StaleEntryRebuilt ==
  \A c \in 1..MaxCalls : \A d \in 1..MaxCalls :
    (/\ Built(c)
     /\ IssuedAfter(d, c)
     /\ SameOptions(c, d)
     /\ calls[d].clearsAtIssue = calls[c].clearsAtReturn
     /\ ~StoredBetween(c, d)
     /\ calls[d].issuedAt - calls[c].completedAt >= CACHE_TTL)
    => /\ calls[d].outcome # "hit"
       /\ Built(d) => calls[d].result = d
       /\ LastStore(d) =>
            cache[generateCacheKey(calls[d].options)] =
              [index |-> d, timestamp |-> calls[d].completedAt]

\* a call issued exactly 5 minutes after the store of the entry of its key
\* has scanned again and stored its own Index
C18_Witness ==
  \E c \in 1..MaxCalls : \E d \in 1..MaxCalls :
    /\ Built(c)
    /\ IssuedAfter(d, c)
    /\ SameOptions(c, d)
    /\ calls[d].clearsAtIssue = calls[c].clearsAtReturn
    /\ calls[d].issuedAt - calls[c].completedAt = CACHE_TTL
    /\ LastStore(d)
    /\ cache[generateCacheKey(calls[d].options)].index = d

\* the time fields of a part, in the order the claim's per-part timestamp
\* looks at them
TimeFields(part) ==
  <<part.time.start, part.time.created, part.time.end, part.time.completed>>
  \o (IF part.state.k = "state"
        THEN <<part.state.time.start, part.state.time.created,
               part.state.time.end, part.state.time.completed>>
        ELSE <<>>)

\* every time field of every part holds a recorded instant or nothing
WellTimed(parts) ==
  \A j \in 1..Len(parts) : \A i \in 1..Len(TimeFields(parts[j])) :
    RecordedInstant(TimeFields(parts[j])[i]) \/ TimeFields(parts[j])[i].k = "absent"

\* the per-part timestamp of a well-timed part: its first recorded time
\* field, 0 when it has none
OwnTime(part) ==
  LET recorded == SelectSeq(TimeFields(part), RecordedInstant)
  IN IF recorded = <<>> THEN 0 ELSE recorded[1].v

HasOwnTime(part) == SelectSeq(TimeFields(part), RecordedInstant) # <<>>

\* order is the ascending order of OwnTime over xs that keeps ties as they are
StableAscending(xs, order) ==
  \A i \in 1..Len(xs) : \A j \in (i + 1)..Len(xs) :
    \/ OwnTime(xs[order[i]]) < OwnTime(xs[order[j]])
    \/ OwnTime(xs[order[i]]) = OwnTime(xs[order[j]]) /\ order[i] < order[j]

RECURSIVE TypesOfParts(_)
\* the MsgTypes parts processed in this order emit
TypesOfParts(parts) ==
  IF parts = <<>> THEN <<>>
  ELSE (IF Head(parts).type \in {"text", "reasoning"} THEN <<"assistant">>
        ELSE IF Completed(Head(parts)) THEN <<"tool_call", "tool_result">>
        ELSE <<>>)
       \o TypesOfParts(Tail(parts))

\* C19: the parts of an assistant message of type text, tool or reasoning
\* are processed in ascending order of their per-part timestamp (0 when
\* they have none, ties in their original order) and the Messages come out
\* in that order; each text or reasoning part gives one assistant Message,
\* timestamped at the part's own time when it has one.
C19_PartsInTimeOrder ==
  (ParsedAssistant /\ WellTimed(measured.parts)) =>
    LET kept == SelectSeq(measured.parts,
                          LAMBDA q : q.type \in {"text", "tool", "reasoning"})
        ms == measured.messages
    IN \E order \in Permutations(1..Len(kept)) :
         LET sorted == [i \in 1..Len(kept) |-> kept[order[i]]]
             texts == SelectSeq(sorted, LAMBDA q : q.type \in {"text", "reasoning"})
             own == SelectSeq(ms, LAMBDA m : m.msgType = "assistant")
         IN /\ StableAscending(kept, order)
            /\ [i \in 1..Len(ms) |-> ms[i].msgType] = TypesOfParts(sorted)
            /\ Len(own) = Len(texts)
            /\ \A i \in 1..Len(texts) :
                 HasOwnTime(texts[i]) => own[i].timestamp = Date(OwnTime(texts[i]))

\* an assistant message whose first part is later than its second has been
\* parsed: the Message of the second part comes first
C19_Witness ==
  /\ ParsedAssistant
  /\ WellTimed(measured.parts)
  /\ Len(measured.parts) = 2
  /\ measured.parts[1].type = "reasoning"
  /\ measured.parts[2].type = "text"
  /\ HasOwnTime(measured.parts[2])
  /\ OwnTime(measured.parts[1]) > OwnTime(measured.parts[2])
  /\ Len(measured.messages) = 2
  /\ measured.messages[1].timestamp = Date(OwnTime(measured.parts[2]))
  /\ measured.messages[2].timestamp = Date(OwnTime(measured.parts[1]))

\* the start time of a part, or failing that its created time
StartOrCreated(part) ==
  IF RecordedInstant(part.time.start) THEN part.time.start ELSE part.time.created

\* C20: a message of role user yields exactly one Message, classified
\* user, whatever its parts; its timestamp is the earliest of its parts'
\* start (or else created) times, or the message's own declared time when
\* no part carries one.  A message of a role other than user and assistant
\* yields no Message.
C20_UserMessage ==
  (measured.k = "parsed" /\ measured.tool = "opencode") =>
    /\ measured.obj.role = "user" =>
         /\ Len(measured.messages) = 1
         /\ measured.messages[1].msgType = "user"
         /\ WellTimed(measured.parts) =>
              LET times == {StartOrCreated(measured.parts[j]).v :
                              j \in {i \in 1..Len(measured.parts) :
                                       RecordedInstant(
                                         StartOrCreated(measured.parts[i]))}}
              IN IF times # {}
                   THEN /\ measured.messages[1].timestamp.k = "date"
                        /\ measured.messages[1].timestamp.t \in times
                        /\ \A t \in times : measured.messages[1].timestamp.t <= t
                   ELSE RecordedInstant(measured.obj.timeCreated) =>
                          measured.messages[1].timestamp
                            = Date(measured.obj.timeCreated.v)
    /\ measured.obj.role \notin {"user", "assistant"} => measured.messages = <<>>

\* a user message whose second part starts before its first has been
\* parsed: its one Message is at the start of the second part
C20_Witness ==
  /\ measured.k = "parsed"
  /\ measured.tool = "opencode"
  /\ measured.obj.role = "user"
  /\ WellTimed(measured.parts)
  /\ Len(measured.parts) = 2
  /\ RecordedInstant(StartOrCreated(measured.parts[1]))
  /\ RecordedInstant(StartOrCreated(measured.parts[2]))
  /\ StartOrCreated(measured.parts[2]).v < StartOrCreated(measured.parts[1]).v
  /\ Len(measured.messages) = 1
  /\ measured.messages[1].timestamp = Date(StartOrCreated(measured.parts[2]).v)

(***************************************************************************)
(* The tool-part runs: one Source-B assistant message whose parts are      *)
(* completed tool parts with any combination of start and end time (end    *)
(* later than start, absent, equal to start, earlier than start, start     *)
(* absent) and text parts, indexed by one buildIndex call.                 *)
(***************************************************************************)
ToolTimes ==
  {TimeOf(Iso(EarlyMs), Iso(LateMs)), TimeOf(Iso(EarlyMs), Absent),
   TimeOf(Iso(EarlyMs), Iso(EarlyMs)), TimeOf(Iso(LateMs), Iso(EarlyMs)),
   TimeOf(Absent, Iso(EarlyMs))}

ToolParts ==
  {PartFile("m1", "tool", Absent, NoTime, State("completed", Absent, Lit(3), time)) :
     time \in ToolTimes}
  \cup {PartFile("m1", "text", Lit(3), TimeOf(Iso(ts), Absent), Absent) :
          ts \in {EarlyMs, FileMtime}}

ToolTrees ==
  {[infos |-> EmptyMap,
    messages |-> <<[sid |-> "s1", mtime |-> FileMtime,
                    obj |-> OpenCodeObj("m1", "assistant", Iso(EarlyMs))]>>,
    parts |-> [i \in 1..Len(parts) |-> [mtime |-> FileMtime, part |-> parts[i]]]] :
     parts \in SeqsUpTo(ToolParts, MaxParts)}

InitTools ==
  /\ claudeTree = <<>>
  /\ openCodeTree \in ToolTrees
  /\ now = DayMs + HourMs
  /\ cache = EmptyMap
  /\ calls = [c \in 1..MaxCalls |-> IdleCall]
  /\ indexes = EmptyMap
  /\ clears = 0
  /\ steps = 0
  /\ InitFrontEnd
  /\ measured = NoMeasure

NextTools ==
  \/ BuildStart(1, PlainOptions)
  \/ ScanClaudeResolve(1)
  \/ ScanOpenCodeResolve(1)
  \/ BuildFinish(1)

SpecTools == InitTools /\ [][NextTools]_vars

\* the completed tool parts of the tree, in file order
CompletedParts ==
  LET mine == SelectSeq(openCodeTree.parts, LAMBDA f : Completed(f.part))
  IN [i \in 1..Len(mine) |-> mine[i].part]

\* C21: in the Session of the message, every completed tool part has its
\* tool_call Message (at the part's start time) at an earlier place of the
\* sorted list than its tool_result Message (at the part's end time, or
\* start + 1 ms), no Message standing for two parts.
C21_CallBeforeResult ==
  Built(1) =>
    \A slot \in Slots(1) :
      LET ms == SessionAt(1, slot).messages
          parts == CompletedParts
      IN \E call \in [1..Len(parts) -> 1..Len(ms)] :
           \E result \in [1..Len(parts) -> 1..Len(ms)] :
             /\ \A p \in 1..Len(parts) : \A q \in 1..Len(parts) :
                  p # q => call[p] # call[q] /\ result[p] # result[q]
             /\ \A p \in 1..Len(parts) :
                  LET startTime == ToolStartTime(parts[p], Date(FileMtime))
                  IN /\ ms[call[p]].msgType = "tool_call"
                     /\ ms[call[p]].timestamp = startTime
                     /\ ms[result[p]].msgType = "tool_result"
                     /\ ms[result[p]].timestamp = ToolEndTime(parts[p], startTime)
                     /\ call[p] < result[p]

(***************************************************************************)
(* The session-id runs: two Source-A records, each with any of its four    *)
(* identifier fields set or not and any kind of timestamp, in one file or  *)
(* in two files of the same or of different directories, are scanned by    *)
(* one buildIndex call.  A file is found at a path under claudeRoot, given *)
(* as its segments.                                                        *)
(***************************************************************************)
\* scanner-claude.ts 26-31: the first path segment under claudeRoot
ProjectDirName(path) == IF path = <<>> THEN "unknown" ELSE path[1]

ClaudeFile(path, mtime, records) ==
  [dir |-> ProjectDirName(path), path |-> path, mtime |-> mtime,
   records |-> records]

\* the name of the directory the file lies in ("" for claudeRoot itself)
ContainingDir(path) == IF Len(path) >= 2 THEN path[Len(path) - 1] ELSE ""

\* [sessionId, requestId, conversationId, threadId] of a record
IdFields ==
  {<<Absent, Absent, Absent, Absent>>,
   <<Id("s1"), Absent, Absent, Absent>>,
   <<Absent, Id("r1"), Absent, Absent>>,
   <<Id("s1"), Id("r1"), Id("c1"), Absent>>,
   <<Id(""), Id("r1"), Absent, Absent>>,
   <<Absent, Absent, Id("c1"), Absent>>,
   <<Absent, Absent, Absent, Id("t1")>>,
   <<Absent, Absent, Id("c1"), Id("t1")>>}

IdTimestamps ==
  {Iso(EarlyMs), Iso(HourMs), Epoch(HourMs + 1), Absent, Junk, Epoch(0)}

IdRecords ==
  {[ClaudeRecord(ids[1], timestamp, "user", Lit(3))
      EXCEPT !.requestId = ids[2], !.conversationId = ids[3], !.threadId = ids[4]] :
     ids \in IdFields, timestamp \in IdTimestamps}

\* where the two records lie
IdPaths ==
  {<<<<"p", "a.jsonl">>, <<"p", "b.jsonl">>>>,
   <<<<"p", "a.jsonl">>, <<"q", "a.jsonl">>>>,
   <<<<"p", "a.jsonl">>, <<"p-0", "a.jsonl">>>>,
   <<<<"p", "a.jsonl">>, <<"p", "sub", "b.jsonl">>>>}

IdTrees ==
  {<<ClaudeFile(<<"p", "a.jsonl">>, FileMtime, <<r1, r2>>)>> :
     r1 \in IdRecords, r2 \in IdRecords}
  \cup {<<ClaudeFile(paths[1], FileMtime, <<r1>>),
          ClaudeFile(paths[2], FileMtime, <<r2>>)>> :
          paths \in IdPaths, r1 \in IdRecords, r2 \in IdRecords}

InitIds ==
  /\ claudeTree \in IdTrees
  /\ openCodeTree = [infos |-> EmptyMap, messages |-> <<>>, parts |-> <<>>]
  /\ now = DayMs + HourMs
  /\ cache = EmptyMap
  /\ calls = [c \in 1..MaxCalls |-> IdleCall]
  /\ indexes = EmptyMap
  /\ clears = 0
  /\ steps = 0
  /\ InitFrontEnd
  /\ measured = NoMeasure

NextIds ==
  \/ BuildStart(1, PlainOptions)
  \/ ScanClaudeResolve(1)
  \/ ScanOpenCodeResolve(1)
  \/ BuildFinish(1)

SpecIds == InitIds /\ [][NextIds]_vars

\* the Source-A scan of call 1 is over
ClaudeScanned == calls[1].claude # Pending

RECURSIVE RecordsOf(_)
\* the records of the files in scan order, each with the path of its file
RecordsOf(files) ==
  IF files = <<>> THEN <<>>
  ELSE [i \in 1..Len(Head(files).records) |->
          [obj |-> Head(files).records[i], path |-> Head(files).path]]
       \o RecordsOf(Tail(files))

\* the hour of a valid instant
HourOf(date) == date.t \div HourMs

\* a record with neither a session nor a request identifier
IdLess(r) == ~IdTruthy(r.obj.sessionId) /\ ~IdTruthy(r.obj.requestId)

Derivable(r) ==
  /\ \A id \in {r.obj.sessionId, r.obj.requestId, r.obj.conversationId,
                r.obj.threadId} : ~IdTruthy(id)
  /\ RecordedInstant(r.obj.timestamp)

Score(str, mode) ==
  CASE mode = "chars" -> str.len
    [] mode = "bytes" -> str.bytes
    [] OTHER -> CeilDiv4(str.len)

\* the size of one part of a content array: its text, its thinking, or the
\* JSON text of its tool input or tool result
PartScore(part, mode) ==
  IF ~Truthy(part.val) THEN 0
  ELSE IF part.type \in {"text", "thinking"} THEN Score(part.val, mode)
  ELSE Score(JsonStringify(part.val), mode)

RECURSIVE SumScores(_, _)
SumScores(parts, mode) ==
  IF parts = <<>> THEN 0
  ELSE PartScore(Head(parts), mode) + SumScores(Tail(parts), mode)

\* the sum S of the sizes of the content-bearing sub-fields of a record
ContentSum(obj, mode) ==
  CASE obj.content.k = "str" -> Score(obj.content, mode)
    [] obj.content.k = "arr" -> SumScores(obj.content.parts, mode)
    [] OTHER -> 0

\* message.content is absent, a string, or an array of parts whose text
\* and thinking fields are strings
TextsAreStrings(obj) ==
  obj.content.k = "arr" =>
    \A i \in 1..Len(obj.content.parts) :
      /\ obj.content.parts[i].type # "null"
      /\ obj.content.parts[i].type \in {"text", "thinking"} =>
           obj.content.parts[i].val.k \in {"absent", "str"}

\* the parts of a content array are of the types a record of this type
\* carries: text and tool_result for user, text, thinking and tool_use for
\* assistant
PartsOfType(obj) ==
  obj.content.k = "arr" =>
    \A i \in 1..Len(obj.content.parts) :
      obj.content.parts[i].type \in
        (IF obj.type = "user" THEN {"text", "tool_result"}
                              ELSE {"text", "thinking", "tool_use"})

Max(a, b) == IF a >= b THEN a ELSE b

\* C23: a Source-A record of type user or assistant has size max(1, S),
\* S the sum over its plain-string content, text parts, thinking parts,
\* stringified tool_use inputs and stringified tool_result contents of the
\* size of the field in the size mode; a record of another type has the
\* size of its stringified whole.
C23_SizeFormula ==
  (/\ measured.k = "parsed"
   /\ measured.tool = "claude-code"
   /\ measured.obj.type # "summary"
   /\ TextsAreStrings(measured.obj)
   /\ PartsOfType(measured.obj))
  => /\ Len(measured.messages) = 1
     /\ measured.messages[1].size =
          JsInt(IF measured.obj.type \in {"user", "assistant"}
                  THEN Max(1, ContentSum(measured.obj, measured.mode))
                  ELSE Max(1, Score(Lit(measured.obj.rawLen), measured.mode)))

(***************************************************************************)
(* The skipping runs: two Source-A stream files, the first with any lines  *)
(* (a line that is no JSON, a record whose content array holds a null, a   *)
(* well-formed record), are scanned by one buildIndex call.  A line is     *)
(* [ok, obj]: whether it parses, and the object it parses to.              *)
(***************************************************************************)
BadLine == [ok |-> FALSE, obj |-> Absent]
Line(obj) == [ok |-> TRUE, obj |-> obj]

\* fs-utils.ts readNDJSON: the objects the lines of a file yield, a line
\* that fails to parse being skipped
readNDJSON(lines) ==
  LET parsed == SelectSeq(lines, LAMBDA l : l.ok)
  IN [i \in 1..Len(parsed) |-> parsed[i].obj]

StreamFile(path, mtime, lines) ==
  [dir |-> ProjectDirName(path), path |-> path, mtime |-> mtime,
   lines |-> lines, records |-> readNDJSON(lines)]

SkipLines ==
  {BadLine,
   Line(ClaudeRecord(Id("s1"), Iso(EarlyMs), "user", Arr(<<NullPart>>))),
   Line(ClaudeRecord(Id("s1"), Iso(EarlyMs), "user", Lit(3))),
   Line(ClaudeRecord(Id("s1"), Iso(FileMtime), "assistant",
                     Arr(<<[type |-> "text", val |-> Lit(3)]>>)))}

SkipTrees ==
  {<<StreamFile(<<"p", "a.jsonl">>, FileMtime, first),
     StreamFile(<<"p", "b.jsonl">>, FileMtime, second)>> :
     first \in SeqsUpTo(SkipLines, MaxRecords),
     second \in SeqsUpTo(SkipLines, 1)}

InitSkip ==
  /\ claudeTree \in SkipTrees
  /\ openCodeTree = [infos |-> EmptyMap, messages |-> <<>>, parts |-> <<>>]
  /\ now = DayMs + HourMs
  /\ cache = EmptyMap
  /\ calls = [c \in 1..MaxCalls |-> IdleCall]
  /\ indexes = EmptyMap
  /\ clears = 0
  /\ steps = 0
  /\ InitFrontEnd
  /\ measured = NoMeasure

NextSkip ==
  \/ BuildStart(1, PlainOptions)
  \/ ScanClaudeResolve(1)
  \/ ScanOpenCodeResolve(1)
  \/ BuildFinish(1)

SpecSkip == InitSkip /\ [][NextSkip]_vars

\* the Message of a line when the line parses and nothing raises while it
\* is processed, no Message otherwise
MessagesOfLine(line, file) ==
  IF ~line.ok THEN <<>>
  ELSE LET message == parseClaudeMessage(line.obj, file.dir, Date(file.mtime),
                                         "chars", now)
       IN IF message.k = "throw" THEN <<>> ELSE <<message.m>>

RECURSIVE MessagesOfLines(_, _)
MessagesOfLines(lines, file) ==
  IF lines = <<>> THEN <<>>
  ELSE MessagesOfLine(Head(lines), file) \o MessagesOfLines(Tail(lines), file)

RECURSIVE WellFormedMessages(_)
\* the Messages of the well-formed records of the files, in scan order
WellFormedMessages(files) ==
  IF files = <<>> THEN <<>>
  ELSE MessagesOfLines(Head(files).lines, Head(files))
       \o WellFormedMessages(Tail(files))

\* C24: the Source-A scan returns the Message of every well-formed record
\* of every file, whatever lines that fail to parse and records whose
\* processing raises stand before or after it.
C24_SkippedAlone ==
  ClaudeScanned =>
    calls[1].claude.messages = WellFormedMessages(calls[1].treeAtIssue)

(***************************************************************************)
(* The since runs: a Source-A file and a Source-B assistant message whose  *)
(* text and completed tool parts lie before, at and after the bound are    *)
(* indexed by one buildIndex call with since set.                          *)
(***************************************************************************)
SinceOptions == {ScanOptions("chars", Date(HourMs)), ScanOptions("chars", Date(HourMs + 1))}

SinceParts ==
  {PartFile("m1", "tool", Absent, NoTime, State("completed", Absent, Lit(3), time)) :
     time \in {TimeOf(Iso(EarlyMs), Iso(HourMs)), TimeOf(Iso(HourMs), Absent)}}
  \cup {PartFile("m1", "text", Lit(3), TimeOf(Iso(ts), Absent), Absent) :
          ts \in {EarlyMs, HourMs, LateMs}}

SinceTrees ==
  {[infos |-> EmptyMap,
    messages |-> <<[sid |-> "s1", mtime |-> FileMtime,
                    obj |-> OpenCodeObj("m1", "assistant", Iso(EarlyMs))]>>,
    parts |-> [i \in 1..Len(parts) |-> [mtime |-> FileMtime, part |-> parts[i]]]] :
     parts \in SeqsUpTo(SinceParts, MaxParts)}

SinceRecords ==
  {ClaudeRecord(Id("s1"), Iso(ts), "user", Lit(3)) : ts \in {EarlyMs, HourMs}}

InitSince ==
  /\ claudeTree \in {<<ClaudeFile(<<"p", "a.jsonl">>, FileMtime, records)>> :
                       records \in SeqsUpTo(SinceRecords, 1)}
  /\ openCodeTree \in SinceTrees
  /\ now = DayMs + HourMs
  /\ cache = EmptyMap
  /\ calls = [c \in 1..MaxCalls |-> IdleCall]
  /\ indexes = EmptyMap
  /\ clears = 0
  /\ steps = 0
  /\ InitFrontEnd
  /\ measured = NoMeasure

NextSince ==
  \/ \E options \in SinceOptions : BuildStart(1, options)
  \/ ScanClaudeResolve(1)
  \/ ScanOpenCodeResolve(1)
  \/ BuildFinish(1)

SpecSince == InitSince /\ [][NextSince]_vars

\* the Messages the two scanners produce from the trees before any filter,
\* Source-B messages expanded
Produced ==
  scanClaudeCode(claudeTree, "chars", NullDate, now)
  \o (CHOOSE ms \in scanOpenCode(openCodeTree, "chars", NullDate, now) : TRUE)

RECURSIVE SumLen(_)
\* the number of Messages held by the Sessions at the slots S of the Index
\* built by call 1
SumLen(S) ==
  IF S = {} THEN 0
  ELSE LET slot == CHOOSE x \in S : TRUE
       IN Len(SessionAt(1, slot).messages) + SumLen(S \ {slot})

\* C25: every Message a scanner produces with timestamp >= since, the
\* timestamp equal to since included, is in the Index, whatever became of
\* the other Messages of its Source-B message or tool part; the Index
\* holds these Messages and no more.
C25_SinceInclusive ==
  Built(1) =>
    LET since == calls[1].options.since
        kept == SelectSeq(Produced, LAMBDA m : DateLe(since, m.timestamp))
    IN /\ \A i \in 1..Len(kept) : kept[i] \in IndexMessages(1)
       /\ SumLen(Slots(1)) = Len(kept)

\* the Index holds the tool_result written at the very bound of a tool
\* part whose tool_call, written before the bound, was dropped
C25_Witness ==
  /\ Built(1)
  /\ calls[1].options.since = Date(HourMs)
  /\ \E i \in 1..Len(openCodeTree.parts) :
       /\ Completed(openCodeTree.parts[i].part)
       /\ openCodeTree.parts[i].part.state.time = TimeOf(Iso(EarlyMs), Iso(HourMs))
  /\ \E m \in IndexMessages(1) : m.msgType = "tool_result" /\ m.timestamp = Date(HourMs)
  /\ \A m \in IndexMessages(1) : m.msgType # "tool_call"

(***************************************************************************)
(* The modification-time runs: a Source-A session spread over two files    *)
(* and a Source-B session of two message files, with part files owned by   *)
(* one message or the other, all files modified at any of three instants,  *)
(* are indexed by one buildIndex call.                                     *)
(***************************************************************************)
Mtimes == {FileMtime, FileMtime + 1, FileMtime + 2}

MtimeClaudeTrees ==
  {<<ClaudeFile(<<"p", "a.jsonl">>, mtime,
                <<ClaudeRecord(Id("s1"), Iso(LateMs), "user", Lit(3))>>),
     ClaudeFile(<<"p", "b.jsonl">>, FileMtime + 1,
                <<ClaudeRecord(Id("s1"), Iso(EarlyMs), "assistant", Lit(3))>>)>> :
     mtime \in Mtimes}

MtimePartFiles ==
  {[mtime |-> mtime,
    part |-> PartFile(owner, type, Lit(3), TimeOf(Iso(LateMs), Absent), Absent)] :
     mtime \in Mtimes, owner \in {"m1", "m2"}, type \in {"text", "step-start"}}

MtimeOpenCodeTrees ==
  {[infos |-> EmptyMap,
    messages |-> <<[sid |-> "s1", mtime |-> mtime,
                    obj |-> OpenCodeObj("m1", "assistant", Iso(LateMs))],
                   [sid |-> "s1", mtime |-> FileMtime + 1,
                    obj |-> OpenCodeObj("m2", "user", Iso(EarlyMs))]>>,
    parts |-> parts] :
     mtime \in Mtimes, parts \in SeqsUpTo(MtimePartFiles, MaxParts)}

InitMtime ==
  /\ claudeTree \in MtimeClaudeTrees
  /\ openCodeTree \in MtimeOpenCodeTrees
  /\ now = DayMs + HourMs
  /\ cache = EmptyMap
  /\ calls = [c \in 1..MaxCalls |-> IdleCall]
  /\ indexes = EmptyMap
  /\ clears = 0
  /\ steps = 0
  /\ InitFrontEnd
  /\ measured = NoMeasure

NextMtime ==
  \/ BuildStart(1, PlainOptions)
  \/ ScanClaudeResolve(1)
  \/ ScanOpenCodeResolve(1)
  \/ BuildFinish(1)

SpecMtime == InitMtime /\ [][NextMtime]_vars

\* the greatest element of a set of numbers
MaxOf(S) == CHOOSE x \in S : \A y \in S : y <= x

\* the mtimes of a Source-B message file and of the part files it owns
OwnMtimes(file) ==
  {file.mtime}
  \cup {openCodeTree.parts[i].mtime :
          i \in {j \in 1..Len(openCodeTree.parts) :
                   openCodeTree.parts[j].part.messageID = file.obj.id}}

\* C26: the fileLastModified of a Session is the greatest fileModifiedAt
\* of its messages; the fileModifiedAt of a Source-A Message is the mtime
\* of its file, that of a Source-B Message the greatest mtime among its
\* message file and the part files the message owns.
C26_LastModified ==
  Built(1) =>
    \A slot \in Slots(1) :
      LET session == SessionAt(1, slot)
      IN /\ session.fileLastModified =
              Date(MaxOf({m.fileModifiedAt.t : m \in Range(session.messages)}))
         /\ \A m \in Range(session.messages) :
              IF m.tool = "claude-code"
                THEN \E f \in 1..Len(claudeTree) :
                       /\ claudeTree[f].records[1].timestamp.v = m.timestamp.t
                       /\ m.fileModifiedAt = Date(claudeTree[f].mtime)
                ELSE \E f \in 1..Len(openCodeTree.messages) :
                       /\ openCodeTree.messages[f].obj.role = m.msgType
                       /\ m.fileModifiedAt =
                            Date(MaxOf(OwnMtimes(openCodeTree.messages[f])))

\* a Source-B Session whose first message comes from the older message
\* file has the mtime of a part file of its other message, newer than both
\* message files
C26_Witness ==
  /\ Built(1)
  /\ openCodeTree.messages[1].mtime = FileMtime
  /\ \E slot \in Slots(1) :
       LET session == SessionAt(1, slot)
       IN /\ session.tool = "opencode"
          /\ Len(session.messages) >= 2
          /\ session.messages[1].fileModifiedAt = Date(FileMtime + 1)
          /\ session.fileLastModified = Date(FileMtime + 2)


(***************************************************************************)
(* The front end: AppStore (part_002), App (size.ts 119-515), the          *)
(* accordion's selection and MessageListRenderable.  Instants are counted  *)
(* from a local midnight, so formatDateKey's day of t is t \div DayMs and  *)
(* the UTC clock reads t - timeZone.  Every AppStore setter ends with      *)
(* notifyListeners(), whose App listener (size.ts 466-471) hands the       *)
(* selected Session to the message list.                                   *)
(***************************************************************************)
\* the Session object a reference stands for
Deref(ref) == indexes[ref.index].byDate[ref.dateKey][ref.pos]

\* the Session objects of the Index that call c built
SessionsOf(c) ==
  UNION {{SessionRef(c, dateKey, pos) :
            pos \in 1..Len(indexes[c].byDate[dateKey])} :
         dateKey \in DOMAIN indexes[c].byDate}

\* Date.prototype.toISOString().slice(0, 10): the day on the UTC calendar
UtcDateKey(date) == "D" \o ToString((date.t - timeZone) \div DayMs)

\* part_002 73-87: the state setSelectedSession leaves
setSelectedSession(state, session) ==
  [state EXCEPT
     !.selectedSession = session,
     !.selectedPath =
       IF session.k = "null" THEN NullPath
       ELSE [k |-> "path",
             dateKey |-> UtcDateKey(Deref(session).startedAt),
             tool |-> Deref(session).tool,
             sessionId |-> Deref(session).sessionId]]

\* part_002 61-62: the state setIndex leaves (the expanded dates of the
\* accordion are read by its drawing only and are not carried)
setIndex(state, c) == [state EXCEPT !.index = c]

\* part_002 141-142
setRefreshing(state, refreshing) == [state EXCEPT !.isRefreshing = refreshing]

\* part_002 168-179: the Session found, or null
findSessionByPath(state, path) ==
  IF state.index = 0 THEN NullSession
  ELSE IF path.dateKey \notin DOMAIN indexes[state.index].byDate
    THEN NullSession
  ELSE LET sessionsForDate == indexes[state.index].byDate[path.dateKey]
           found == {i \in 1..Len(sessionsForDate) :
                        /\ sessionsForDate[i].tool = path.tool
                        /\ sessionsForDate[i].sessionId = path.sessionId}
       IN IF found = {} THEN NullSession
          ELSE SessionRef(state.index, path.dateKey,
                          CHOOSE i \in found : \A j \in found : i <= j)

\* MessageListRenderable.ts 22-23: this.session?.sessionId ===
\* session?.sessionId && this.session?.tool === session?.tool
SameSession(a, b) ==
  IF a.k = "null" \/ b.k = "null" THEN a.k = b.k
  ELSE /\ Deref(a).sessionId = Deref(b).sessionId
       /\ Deref(a).tool = Deref(b).tool

\* MessageListRenderable.ts 21-33: the fields setSession leaves
setSession(list, session) ==
  IF SameSession(list.session, session) THEN list
  ELSE [InitialList EXCEPT !.session = session]

\* the rows the message list has on the screen (Renderable.height)
ListHeight == 1

Min(a, b) == IF a <= b THEN a ELSE b

\* the options the App was constructed with (size.ts 147)
AppOptions == PlainOptions

\* size.ts 491-497: refreshData up to its await: setRefreshing(true),
\* clearCache(), and buildIndex, which misses the cleared cache and starts
\* both scanners; call c is the buildIndex call of this refresh
refreshData(c) ==
  /\ calls[c].pc = "idle"
  /\ \A d \in 1..(c - 1) : calls[d].pc # "idle"
  /\ store' = setRefreshing(store, TRUE)
  /\ messageList' = setSession(messageList, store.selectedSession)
  /\ cache' = EmptyMap
  /\ clears' = clears + 1
  /\ calls' = [calls EXCEPT ![c] =
       [@ EXCEPT !.pc = "scanning", !.options = AppOptions,
                 !.issuedAt = now, !.issuedStep = steps + 2,
                 !.clearsAtIssue = clears + 1, !.treeAtIssue = claudeTree]]
  /\ refreshes' = [refreshes EXCEPT ![c] = "awaiting"]
  /\ steps' = steps + 2
  /\ UNCHANGED <<claudeTree, openCodeTree, now, indexes, measured, timeZone>>

\* size.ts 497-505: buildIndex settles and refreshData runs on at once:
\* setIndex(index) unless buildIndex threw, then finally setRefreshing(false)
refreshDataResume(c) ==
  /\ refreshes[c] = "awaiting"
  /\ BuildReturn(c)
  /\ LET loaded == IF calls'[c].outcome = "built"
                     THEN setIndex(store, c) ELSE store
     IN store' = setRefreshing(loaded, FALSE)
  /\ messageList' = setSession(messageList, store.selectedSession)
  /\ refreshes' = [refreshes EXCEPT ![c] = "settled"]
  /\ UNCHANGED timeZone

\* buildIndex called by someone other than refreshData, with the App's
\* options
DirectBuild(c) == BuildStart(c, AppOptions)

\* ... and its return
DirectFinish(c) == refreshes[c] = "idle" /\ BuildFinish(c)

\* AccordionRenderable.ts 43-44: the session rows of the accordion are the
\* Sessions of the store's Index
Rows == IF store.index = 0 THEN {} ELSE SessionsOf(store.index)

\* AccordionRenderable.ts 186: return on a session row
selectCurrentItem(session) ==
  /\ session \in Rows
  /\ store' = setSelectedSession(store, session)
  /\ messageList' = setSession(messageList, session)
  /\ UNCHANGED <<claudeTree, openCodeTree, now, cache, calls, indexes, clears,
                 steps, measured, refreshes, timeZone>>

\* AccordionRenderable.ts 130: escape
clearSelection ==
  /\ store.selectedSession # NullSession
  /\ store' = setSelectedSession(store, NullSession)
  /\ messageList' = setSession(messageList, NullSession)
  /\ UNCHANGED <<claudeTree, openCodeTree, now, cache, calls, indexes, clears,
                 steps, measured, refreshes, timeZone>>

\* the messages of the Session the list shows
ListMessages == Deref(messageList.session).messages

\* MessageListRenderable.ts 604-615
selectPrevious ==
  /\ messageList.session # NullSession
  /\ Len(ListMessages) # 0
  /\ LET selected == Max(0, messageList.selectedIndex - 1)
     IN messageList' =
          [messageList EXCEPT
             !.selectedIndex = selected,
             !.scrollOffset = IF selected < @ THEN selected ELSE @]
  /\ UNCHANGED <<claudeTree, openCodeTree, now, cache, calls, indexes, clears,
                 steps, measured, store, refreshes, timeZone>>

\* MessageListRenderable.ts 617-628
selectNext ==
  /\ messageList.session # NullSession
  /\ Len(ListMessages) # 0
  /\ LET selected == Min(Len(ListMessages) - 1, messageList.selectedIndex + 1)
     IN messageList' =
          [messageList EXCEPT
             !.selectedIndex = selected,
             !.scrollOffset = IF selected >= @ + ListHeight
                                THEN selected - ListHeight + 1 ELSE @]
  /\ UNCHANGED <<claudeTree, openCodeTree, now, cache, calls, indexes, clears,
                 steps, measured, store, refreshes, timeZone>>

\* Array.prototype.splice(at, 1), at counted from 0
Splice(xs, at) ==
  [j \in 1..(Len(xs) - 1) |-> IF j <= at THEN xs[j] ELSE xs[j + 1]]

\* MessageListRenderable.ts 630-648: the splice is done in place on the
\* messages array of the Session object, which is the one the Index holds
deleteSelected ==
  /\ messageList.session # NullSession
  /\ Len(ListMessages) # 0
  /\ messageList.selectedIndex >= 0
  /\ messageList.selectedIndex < Len(ListMessages)
  /\ LET ref == messageList.session
         left == Splice(ListMessages, messageList.selectedIndex)
     IN /\ indexes' = [indexes EXCEPT
             ![ref.index].byDate[ref.dateKey][ref.pos].messages = left]
        /\ messageList' =
             [messageList EXCEPT
                !.selectedIndex = IF @ >= Len(left)
                                    THEN Max(0, Len(left) - 1) ELSE @,
                !.scrollOffset = IF @ > 0 /\ @ >= Len(left) - ListHeight
                                   THEN Max(0, Len(left) - ListHeight) ELSE @]
  /\ UNCHANGED <<claudeTree, openCodeTree, now, cache, calls, clears, steps,
                 measured, store, refreshes, timeZone>>

\* MessageListRenderable.ts 650-664
toggleExpansion ==
  /\ messageList.session # NullSession
  /\ Len(ListMessages) # 0
  /\ messageList.selectedIndex >= 0
  /\ messageList.selectedIndex < Len(ListMessages)
  /\ messageList' =
       [messageList EXCEPT
          !.expandedIndex = IF @ = messageList.selectedIndex
                              THEN -1 ELSE messageList.selectedIndex,
          !.expandedScrollOffset = 0]
  /\ UNCHANGED <<claudeTree, openCodeTree, now, cache, calls, indexes, clears,
                 steps, measured, store, refreshes, timeZone>>

\* the machine runs on UTC or one hour east of it
TimeZones == {0, HourMs}

\* one Source-A file of at most MaxRecords records of two sessions, early
\* on day 0 or early on day 1
AppRecords ==
  {ClaudeRecord(Id(sessionId), Iso(ts), "user", Lit(3)) :
     sessionId \in {"s1", "s2"}, ts \in {EarlyMs, LateMs}}

AppTrees ==
  {<<ClaudeFile(<<"p", "a.jsonl">>, FileMtime, records)>> :
     records \in SeqsUpTo(AppRecords, MaxRecords)}

\* the App is constructed (size.ts 139-155): the store and the list are
\* new and the constructor's refreshData() awaits call 1
InitApp ==
  /\ claudeTree \in AppTrees
  /\ openCodeTree = [infos |-> EmptyMap, messages |-> <<>>, parts |-> <<>>]
  /\ now = DayMs + HourMs
  /\ cache = EmptyMap
  /\ calls = [c \in 1..MaxCalls |->
       IF c = 1
         THEN [IdleCall EXCEPT !.pc = "scanning", !.options = AppOptions,
                               !.issuedAt = now, !.issuedStep = 2,
                               !.clearsAtIssue = 1, !.treeAtIssue = claudeTree]
         ELSE IdleCall]
  /\ indexes = EmptyMap
  /\ clears = 1
  /\ steps = 2
  /\ measured = NoMeasure
  /\ store = setRefreshing(InitialState, TRUE)
  /\ messageList = InitialList
  /\ refreshes = [c \in 1..MaxCalls |-> IF c = 1 THEN "awaiting" ELSE "idle"]
  /\ timeZone \in TimeZones

NextApp ==
  \/ \E c \in 1..MaxCalls : refreshData(c)
  \/ \E c \in 1..MaxCalls : ScanClaudeResolve(c)
  \/ \E c \in 1..MaxCalls : ScanOpenCodeResolve(c)
  \/ \E c \in 1..MaxCalls : refreshDataResume(c)
  \/ \E c \in 1..MaxCalls : DirectBuild(c)
  \/ \E c \in 1..MaxCalls : DirectFinish(c)
  \/ \E session \in Rows : selectCurrentItem(session)
  \/ clearSelection
  \/ selectPrevious
  \/ selectNext
  \/ deleteSelected
  \/ toggleExpansion

SpecApp == InitApp /\ [][NextApp]_vars


(***************************************************************************)
(* C27.  Sessions of an Index that is held keep their messages.            *)
(***************************************************************************)
\* the Index instances the cache or the store holds
HeldIndexes ==
  {cache[key].index : key \in DOMAIN cache}
    \cup (IF store.index = 0 THEN {} ELSE {store.index})

\* C27: every Session of an Index held by the cache or by the store has a
\* non-empty messages list, in every reachable state
C27_MessagesNonEmpty ==
  \A c \in HeldIndexes : \A session \in SessionsOf(c) :
    Deref(session).messages # <<>>


(***************************************************************************)
(* C28.  The refreshing flag and the refreshes in flight.                  *)
(***************************************************************************)
\* the refreshData calls whose buildIndex has not settled
InFlight == {c \in 1..MaxCalls : refreshes[c] = "awaiting"}

\* C28: whenever at least one refreshData call is in flight the store's
\* isRefreshing is true, so it is false only when none is in flight
C28_RefreshingWhileInFlight == InFlight # {} => store.isRefreshing


(***************************************************************************)
(* C29.  The selection path leads back to the selected Session.            *)
(***************************************************************************)
\* C29: once a Session of the store's Index was handed to setSelectedSession
\* findSessionByPath(accordionState.selectedPath) returns that Session: the
\* dateKey of the path is the key of the bucket the indexer put it in
C29_SelectionRoundTrip ==
  store.selectedSession \in Rows =>
    findSessionByPath(store, store.selectedPath) = store.selectedSession


(***************************************************************************)
(* C30.  The list's selection and expansion stay inside the messages.      *)
(***************************************************************************)
\* C30: selectedIndex is within [0, messages.length - 1] whenever the
\* session shown has messages, and expandedIndex is -1 or within
\* [0, messages.length - 1]
C30_IndexesInRange ==
  messageList.session # NullSession =>
    /\ Len(ListMessages) > 0 =>
         messageList.selectedIndex \in 0..(Len(ListMessages) - 1)
    /\ \/ messageList.expandedIndex = -1
       \/ messageList.expandedIndex \in 0..(Len(ListMessages) - 1)

\* the half of C30 about selectedIndex
SelectedInRange ==
  (messageList.session # NullSession /\ Len(ListMessages) > 0) =>
    messageList.selectedIndex \in 0..(Len(ListMessages) - 1)

====
